---- MODULE Spec2Model ----
(***************************************************************************)
(* Multi-axis motion control: the per-axis driver StageControl             *)
(* (src/MMC 100/modern_stage.py) and the StageManager                      *)
(* (src/MMC 100/modern/stage_manager.py).                                  *)
(*                                                                         *)
(* Every driver operation runs as a job on the axis's single-worker        *)
(* executor.  A job talks to the controller through _send_command and      *)
(* _query_command, which take the process-wide _serial_lock for one        *)
(* write/read round trip.  A round trip is two steps of the model: the     *)
(* write (lock taken) and the read (lock released).                        *)
(***************************************************************************)
EXTENDS Integers, Sequences, FiniteSets, TLC

\* ------------------------------------------------------------------ bounds
\* Soft limits are (-Range, Range); requested positions span -(Range+1)..Range+1.
Range == 1
\* Manager operations the orchestrator issues in one run: on live axes, and while
\* setting the stage up.
MaxOps == 2
MaxStageOps == 1
\* Status polls the 30 s move timeout allows a completion monitor.
MaxMonitorPolls == 2
\* Observers registered with the manager in one run.
MaxObservers == 2
\* Attachments other processes make to the shared regions in one run.
MaxAttach == 3
\* Polling rounds the 60 s timeout allows wait_for_all_moves_complete.
MaxWaitRounds == 2
\* Polls after which the model stops following a homing loop that has no timeout.
HomePollCap == MaxMonitorPolls + 1

\* ------------------------------------------------------------------ data
Axes == {"X", "Y", "Z"}
AxisOrder == <<"X", "Y", "Z">>
AXIS_MAP == [a \in Axes |-> CASE a = "X" -> 1 [] a = "Y" -> 2 [] a = "Z" -> 3]

None == <<>>
Some(v) == <<v>>

DefaultLimits == [a \in Axes |-> <<0 - Range, Range>>]
\* A configuration whose travel holds every target, as the shipped one does.
WideLimits == [a \in Axes |-> <<0 - (Range + 2), Range + 2>>]
Targets == {0 - (Range + 1), 0, Range, Range + 1}

\* A job of an axis's executor.  n places the manager call that submitted it among
\* the single-axis operations called on that axis; it is 0 for any other job.
NoJob == [kind |-> "none", arg |-> 0, wait |-> FALSE, via |-> "none", n |-> 0]
Job(k, x, w, v) == [kind |-> k, arg |-> x, wait |-> w, via |-> v, n |-> 0]

NoSnap == [w0 |-> 0, mip0 |-> FALSE, tgt0 |-> None, homed0 |-> FALSE, ev0 |-> 0,
           proj |-> 0, lim |-> <<0, 0>>, stopped |-> FALSE, read |-> None,
           sta |-> "none"]
NoLast == [kind |-> "none", arg |-> 0, via |-> "none", ret |-> "None", proj |-> 0,
           lim |-> <<0, 0>>,
           w0 |-> 0, w1 |-> 0, mip0 |-> FALSE, mip1 |-> FALSE,
           tgt0 |-> None, tgt1 |-> None, homed0 |-> FALSE, homed1 |-> FALSE,
           ev0 |-> 0, ev1 |-> 0, stopped |-> FALSE, polls |-> 0, read |-> None,
           sta |-> "none", pos1 |-> 0, at |-> "idle"]

NoMgr == [op |-> "none", todo |-> <<>>, res |-> [a \in Axes |-> "none"], req |-> {},
          before |-> {},
          \* move_xy_rel: the distances and the two legs' results
          dist |-> [a \in Axes |-> 0], xy |-> [a \in Axes |-> "none"],
          \* get_all_positions: the dictionary it builds
          data |-> [a \in Axes |-> 0],
          \* load_params: the live axes that were not homed at the call
          unhomed |-> {},
          \* wait_for_all_moves_complete: polling rounds begun
          round |-> 0]

VARIABLES
    \* StageManager
    motors,            \* keys of self.motors: the live set
    last_positions,    \* self._last_positions, None where there is no entry
    cfg_limits,        \* self.config.position_limits
    sinks,             \* axes whose driver forwards events to _handle_stage_event
    event_callbacks,   \* self._event_callbacks: the observers, in registration order
    mgr,               \* the manager operation that iterates over axes, if any
    callret,           \* the last manager call that returned: [n, op, axis, live, ret]
    ncalls,            \* manager operations issued so far
    budget,            \* manager operations the orchestrator issues in this run
    shm,               \* the shared-memory regions and the processes attached to them
    \* StageControl, one per axis
    last_position, is_homed, move_in_progress, target_position,
    position_limits, placeholder, is_connected,
    \* shared transport
    serial_lock,       \* "free" or the axis whose round trip holds _serial_lock
    port,              \* _global_serial_port: "none", "open" or "closed"
    sent,              \* per axis, the commands it has written to the port
    \* the axis's single-worker executor and the event loop
    queue, job, pc, phase, polls,
    spawn,             \* completion monitors created as tasks, not yet submitted
    \* observation
    events,            \* per axis, the events its driver has emitted
    snap,              \* per axis, what the running job saw when it started
    last               \* per axis, the record of the job that finished last

mgrVars == <<motors, last_positions, cfg_limits, sinks, event_callbacks, mgr, callret,
             ncalls, budget, shm>>
drvVars == <<last_position, is_homed, move_in_progress, target_position,
             position_limits, placeholder, is_connected>>
ioVars == <<serial_lock, port, sent>>
workVars == <<queue, job, pc, phase, polls, spawn>>
obsVars == <<events, snap, last>>
vars == <<mgrVars, drvVars, ioVars, workVars, obsVars>>

\* ------------------------------------------------------------------ helpers
Abs(x) == IF x < 0 THEN 0 - x ELSE x
Event(type, data) == <<type, data>>

\* Observers a caller can register: one that returns and one that raises.
Observers == {"returns", "raises"}
Raises(o) == o = "raises"

\* _handle_stage_event: `try: cb(event) / except Exception` around each callback.
CallbackUnguarded == FALSE
CallbackGuarded == TRUE

RECURSIVE Invoked(_)
Invoked(cbs) ==
    IF cbs = <<>> THEN <<>>
    ELSE IF Raises(Head(cbs)) /\ ~CallbackGuarded
           THEN <<Head(cbs)>>
           ELSE <<Head(cbs)>> \o Invoked(Tail(cbs))

\* The observers the manager calls for an event of axis a, in the order called.
handle_stage_event(a) == IF a \in sinks THEN Invoked(event_callbacks) ELSE <<>>

\* _emit_event: the event, followed by the observers called for it and the
\* observers registered when it was emitted.
Emit(a, type, data) ==
    events' = [events EXCEPT ![a] =
                 Append(@, Event(type, data) \o <<handle_stage_event(a), event_callbacks>>)]

\* position_tolerance, in um
PositionTolerance == 1

\* ------------------------------------------------------------------ transport
\* `with self._serial_lock:` in _send_command and _query_command.
LockIgnored(a) == TRUE
LockAvailable(a) == serial_lock = "free"

\* The command a job writes at each of its steps.
Opcode(label) ==
    CASE label = "connect_FBK" -> "FBK3"
      [] label = "connect_VEL" -> "VEL"
      [] label = "move_MVA" -> "MVA"
      [] label = "move_MVR" -> "MVR"
      [] label = "stop_STP" -> "STP"
      [] label = "estop_EST" -> "EST"
      [] label \in {"mon_STA", "state_STA", "home_STA", "hl_STA1", "hl_STA2"} -> "STA?"
      [] label \in {"mon_POS", "pos_POS", "home_POS", "hl_POS1", "hl_POS2"} -> "POS?"
      [] label \in {"home_ZRO", "hl_ZRO"} -> "ZRO"
      [] label \in {"home_MLN", "hl_MLN"} -> "MLN"
      [] label \in {"home_MLP", "hl_MLP"} -> "MLP"

\* The broadcast command carries no axis number; every other command is addressed.
\* The log notes beside each command the job that wrote it and its call.
Command(a, label) ==
    [axis |-> IF label = "estop_EST" THEN 0 ELSE AXIS_MAP[a],
     op |-> Opcode(label),
     arg |-> IF label \in {"move_MVA", "move_MVR"} THEN job[a].arg ELSE 0,
     by |-> job[a].kind, n |-> job[a].n]

\* First half of _send_command / _query_command: take the lock, check the port,
\* write.  A closed port raises ConnectionError and a failing write raises; both
\* leave the with-block, so the lock is not held afterwards.
WriteCommand(a) ==
    /\ job[a] # NoJob
    /\ phase[a] = "w"
    /\ LockAvailable(a)
    /\ \E wrote \in BOOLEAN :
         IF port = "open" /\ wrote
           THEN /\ sent' = [sent EXCEPT ![a] = Append(@, Command(a, pc[a]))]
                /\ serial_lock' = a
                /\ phase' = [phase EXCEPT ![a] = "r"]
           ELSE /\ phase' = [phase EXCEPT ![a] = "x"]
                /\ UNCHANGED <<sent, serial_lock>>
    /\ UNCHANGED <<mgrVars, drvVars, port, queue, job, pc, polls, spawn, obsVars>>

\* Second half: the read ends and the with-block releases the lock.
ReleaseAfterLoop(a) == serial_lock' = serial_lock
Release(a) == serial_lock' = IF phase[a] = "r" THEN "free" ELSE serial_lock

\* What the read of a plain command can do: return, or raise.
SendReplies(ph) == IF ph = "x" THEN {"exc"} ELSE {"ok", "exc"}

\* What read(20) after STA? can give: nothing (read timeout), a status block with
\* bit 3 clear (moving) or set (stopped), or an I/O error.
StaReplies(ph) == IF ph = "x" THEN {"exc"} ELSE {"empty", "moving", "stopped", "exc"}

\* _query_command, STA? branch: an empty read is answered from the last raw block
\* (self._placeholder); with no earlier block, ''[1] raises IndexError.
QueryStatus(raw, held) ==
    CASE raw = "exc" -> "exc"
      [] raw = "empty" -> IF held = "" THEN "exc" ELSE held
      [] OTHER -> raw
NextPlaceholder(raw, held) == IF raw \in {"moving", "stopped"} THEN raw ELSE held

\* What read(20) after POS? can give: an I/O error, nothing (read timeout), or a
\* block of bytes whose first field reads v um.
PosRaw(k, v) == [k |-> k, v |-> v]
PosReplies(ph) ==
    IF ph = "x" THEN {PosRaw("exc", 0)}
    ELSE {PosRaw("exc", 0), PosRaw("empty", 0)}
           \cup {PosRaw("data", v) : v \in {0 - Range, 0, Range}}

\* raw.strip('#') on the bytes that read(20) returns: bytes.strip takes bytes, and
\* the str argument raises TypeError.
BytesStripStr(raw) == None

\* _query_command, POS? branch: the parsed first field as Some(v), None if it raised.
QueryPosition(raw) ==
    CASE raw.k = "exc" -> None
      [] raw.k = "empty" -> None
      [] OTHER -> BytesStripStr(raw)

\* ------------------------------------------------------------------ executor
Snap(a, projected) ==
    [w0 |-> Len(sent[a]), mip0 |-> move_in_progress[a], tgt0 |-> target_position[a],
     homed0 |-> is_homed[a], ev0 |-> Len(events[a]), proj |-> projected,
     lim |-> position_limits[a], stopped |-> FALSE, read |-> None, sta |-> "none"]

Dequeued(a) == [queue EXCEPT ![a] = Tail(@)]

Ready(a, kind) == /\ job[a] = NoJob
                  /\ queue[a] # <<>>
                  /\ Head(queue[a]).kind = kind

\* The job takes the worker and heads for its first command.
Take(a, label, projected) ==
    /\ job' = [job EXCEPT ![a] = Head(queue[a])]
    /\ queue' = Dequeued(a)
    /\ pc' = [pc EXCEPT ![a] = label]
    /\ phase' = [phase EXCEPT ![a] = "w"]
    /\ polls' = [polls EXCEPT ![a] = 0]
    /\ snap' = [snap EXCEPT ![a] = Snap(a, projected)]

\* The job goes on to its next command.
Goto(a, label, n) ==
    /\ pc' = [pc EXCEPT ![a] = label]
    /\ phase' = [phase EXCEPT ![a] = "w"]
    /\ polls' = [polls EXCEPT ![a] = n]
    /\ UNCHANGED <<job, queue, spawn, last, mgrVars>>

Returned(op, a, wasLive, ret) ==
    callret' = [n |-> callret.n + 1, op |-> op, axis |-> a, live |-> wasLive, ret |-> ret]

InOrder(S) == SelectSeq(AxisOrder, LAMBDA a : a \in S)

\* emergency_stop: the loop goes on to the next live axis whatever the result.
EstopRestAbort(todo, ret) == IF ret = "True" THEN Tail(todo) ELSE <<>>
EstopRest(todo, ret) == Tail(todo)

\* home_limits(Z): `if aok: pass / else: return False` after the Y move.
YMoveIgnored(ret) == TRUE
YMoveOk(ret) == ret = "True"

\* initialize: `if ok:` guards the three registrations of a connected driver.
ConnectedAlways(ret) == TRUE
Connected(ret) == ret = "True"

\* StageConfiguration.initial_positions: two thirds of the upper limit for X and Z
\* (rounded down here), the upper limit itself for Y.
InitialPositions ==
    [a \in Axes |-> IF a = "Y" THEN cfg_limits[a][2] ELSE (cfg_limits[a][2] * 2) \div 3]

\* The awaiting manager coroutine resumes with the job's result.
Resume(a, j, ret, q) ==
    CASE j.via = "move_single_axis" ->
           /\ last_positions' =
                IF ret = "True"
                  THEN [last_positions EXCEPT ![a] =
                          IF j.kind = "move_rel" THEN Some(@[1] + j.arg) ELSE Some(j.arg)]
                  ELSE last_positions
           /\ Returned(j.via, a, TRUE, ret)
           /\ queue' = q
           /\ UNCHANGED <<motors, cfg_limits, sinks, event_callbacks, mgr>>
      [] j.via = "home_axis" ->
           /\ last_positions' = IF ret = "True" THEN [last_positions EXCEPT ![a] = Some(0)]
                                ELSE last_positions
           /\ Returned(j.via, a, TRUE, ret)
           /\ queue' = q
           /\ UNCHANGED <<motors, cfg_limits, sinks, event_callbacks, mgr>>
      [] j.via \in {"stop_axis", "get_position", "get_state"} ->
           /\ Returned(j.via, a, TRUE, ret)
           /\ queue' = q
           /\ UNCHANGED <<motors, last_positions, cfg_limits, sinks, event_callbacks, mgr>>
      [] j.via = "home_limits" ->
           \* `ok, pos_lims = <bool>` raises TypeError before the limits are stored.
           /\ Returned(j.via, a, TRUE, "raised")
           /\ queue' = q
           /\ UNCHANGED <<motors, last_positions, cfg_limits, sinks, event_callbacks, mgr>>
      [] j.via = "home_limits_Y" ->
           \* The Y move of home_limits(Z) returned: go on to Z, or give up.
           /\ IF YMoveOk(ret)
                THEN /\ queue' = [q EXCEPT !["Z"] =
                                    Append(@, Job("home_limits", 0, FALSE, "home_limits"))]
                     /\ UNCHANGED callret
                ELSE /\ queue' = q
                     /\ Returned("home_limits", "Z", TRUE, "False")
           /\ UNCHANGED <<motors, last_positions, cfg_limits, sinks, event_callbacks, mgr>>
      [] j.via = "initialize" ->
           LET ok == Connected(ret)
               rest == Tail(mgr.todo)
               res == [mgr.res EXCEPT ![a] = ret]
           IN  /\ motors' = IF ok THEN motors \cup {a} ELSE motors
               /\ last_positions' = IF ok THEN [last_positions EXCEPT ![a] = Some(0)]
                                    ELSE last_positions
               /\ sinks' = IF ok THEN sinks \cup {a} ELSE sinks
               /\ UNCHANGED <<cfg_limits, event_callbacks>>
               /\ IF rest = <<>>
                    THEN /\ mgr' = [mgr EXCEPT !.op = "none", !.todo = rest, !.res = res]
                         /\ Returned(j.via, "all", TRUE,
                                     IF \A x \in mgr.req : res[x] = "True"
                                       THEN "True" ELSE "False")
                         /\ queue' = q
                    ELSE /\ mgr' = [mgr EXCEPT !.todo = rest, !.res = res]
                         /\ queue' = [q EXCEPT ![Head(rest)] =
                                        Append(@, Job("connect", 0, FALSE, "initialize"))]
                         /\ UNCHANGED callret
      [] j.via = "emergency_stop" ->
           LET rest == EstopRest(mgr.todo, ret)
               res == [mgr.res EXCEPT ![a] = ret]
           IN  /\ UNCHANGED <<motors, last_positions, cfg_limits, sinks, event_callbacks>>
               /\ IF rest = <<>>
                    THEN /\ mgr' = [mgr EXCEPT !.op = "none", !.todo = rest, !.res = res]
                         /\ Returned(j.via, "all", TRUE, "True")
                         /\ queue' = q
                    ELSE /\ mgr' = [mgr EXCEPT !.todo = rest, !.res = res]
                         /\ queue' = [q EXCEPT ![Head(rest)] =
                                        Append(@, Job("estop", 0, FALSE, "emergency_stop"))]
                         /\ UNCHANGED callret
      [] j.via \in {"move_xy_rel", "move_xy_absolute"} ->
           \* asyncio.gather: the call goes on when both legs have returned; both
           \* operations then add the pair they were given to the cached positions.
           LET xy == [mgr.xy EXCEPT ![a] = ret]
               both == xy["X"] = "True" /\ xy["Y"] = "True"
           IN  /\ queue' = q
               /\ UNCHANGED <<motors, cfg_limits, sinks, event_callbacks>>
               /\ IF xy["X"] # "none" /\ xy["Y"] # "none"
                    THEN /\ mgr' = [mgr EXCEPT !.op = "none", !.xy = xy]
                         /\ last_positions' =
                              IF both
                                THEN [last_positions EXCEPT
                                        !["X"] = Some(@[1] + mgr.dist["X"]),
                                        !["Y"] = Some(@[1] + mgr.dist["Y"])]
                                ELSE last_positions
                         /\ Returned(j.via, "all", TRUE, IF both THEN "True" ELSE "False")
                    ELSE /\ mgr' = [mgr EXCEPT !.xy = xy]
                         /\ UNCHANGED <<last_positions, callret>>
      [] j.via = "get_all_positions" ->
           \* data[axis] = pos.actual if pos else 0.0
           LET rest == Tail(mgr.todo)
               actual == IF ret = "Position" THEN last_position'[a] ELSE 0
               data == [mgr.data EXCEPT ![a] = actual]
           IN  /\ UNCHANGED <<motors, last_positions, cfg_limits, sinks, event_callbacks>>
               /\ IF rest = <<>>
                    THEN /\ mgr' = [mgr EXCEPT !.op = "none", !.todo = rest, !.data = data]
                         /\ Returned(j.via, "all", TRUE, "data")
                         /\ queue' = q
                    ELSE /\ mgr' = [mgr EXCEPT !.todo = rest, !.data = data]
                         /\ queue' = [q EXCEPT ![Head(rest)] =
                                        Append(@, Job("get_position", 0, FALSE,
                                                      "get_all_positions"))]
                         /\ UNCHANGED callret
      [] j.via = "load_params" ->
           \* `if not ok: return ok`, else the next preset; self.motors[axis] raises
           \* KeyError for an axis that is not live.
           LET rest == Tail(mgr.todo)
           IN  /\ UNCHANGED <<motors, last_positions, cfg_limits, sinks, event_callbacks>>
               /\ IF ret # "True" \/ rest = <<>> \/ Head(rest) \notin motors
                    THEN /\ mgr' = [mgr EXCEPT !.op = "none", !.todo = <<>>]
                         /\ Returned(j.via, "all", TRUE,
                                     IF ret # "True" THEN ret
                                     ELSE IF rest = <<>> THEN "True" ELSE "raised")
                         /\ queue' = q
                    ELSE /\ mgr' = [mgr EXCEPT !.todo = rest]
                         /\ queue' = [q EXCEPT ![Head(rest)] =
                                        Append(@, Job("move_abs", InitialPositions[Head(rest)],
                                                      TRUE, "load_params"))]
                         /\ UNCHANGED callret
      [] j.via = "wait_for_all_moves_complete" ->
           \* is_moving() is state == MOVING; is_any_axis_moving returns at the
           \* first moving motor, and False after the last one.  A round that
           \* found a moving motor is followed by another unless time is up.
           LET rest == Tail(mgr.todo)
               res == [mgr.res EXCEPT ![a] = ret]
               again == InOrder(motors)
           IN  /\ UNCHANGED <<motors, last_positions, cfg_limits, sinks, event_callbacks>>
               /\ CASE ret = "MOVING" ->
                         \E elapsed \in BOOLEAN :
                           /\ mgr.round >= MaxWaitRounds => elapsed
                           /\ IF elapsed
                                THEN /\ mgr' = [mgr EXCEPT !.op = "none", !.todo = <<>>,
                                                           !.res = res]
                                     /\ Returned(j.via, "all", TRUE, "False")
                                     /\ queue' = q
                                ELSE /\ mgr' = [mgr EXCEPT !.todo = again,
                                                           !.res = [x \in Axes |-> "none"],
                                                           !.round = @ + 1]
                                     /\ queue' = [q EXCEPT ![Head(again)] =
                                                    Append(@, Job("get_state", 0, FALSE, j.via))]
                                     /\ UNCHANGED callret
                    [] ret # "MOVING" /\ rest = <<>> ->
                         /\ mgr' = [mgr EXCEPT !.op = "none", !.todo = rest, !.res = res]
                         /\ Returned(j.via, "all", TRUE, "True")
                         /\ queue' = q
                    [] OTHER ->
                         /\ mgr' = [mgr EXCEPT !.todo = rest, !.res = res]
                         /\ queue' = [q EXCEPT ![Head(rest)] =
                                        Append(@, Job("get_state", 0, FALSE, j.via))]
                         /\ UNCHANGED callret
      [] OTHER ->
           /\ queue' = q
           /\ UNCHANGED <<motors, last_positions, cfg_limits, sinks, event_callbacks, mgr, callret>>

\* The job returns: the worker is free, move_absolute / move_relative create the
\* monitor task, and the awaiting coroutine resumes.
Complete(a, j, ret, q, sn) ==
    /\ job' = [job EXCEPT ![a] = NoJob]
    /\ pc' = [pc EXCEPT ![a] = "idle"]
    /\ phase' = [phase EXCEPT ![a] = "-"]
    /\ polls' = [polls EXCEPT ![a] = 0]
    /\ snap' = [snap EXCEPT ![a] = NoSnap]
    /\ last' = [last EXCEPT ![a] =
                  [kind |-> j.kind, arg |-> j.arg, via |-> j.via, ret |-> ret,
                   proj |-> sn.proj, lim |-> sn.lim,
                   w0 |-> sn.w0, w1 |-> Len(sent'[a]),
                   mip0 |-> sn.mip0, mip1 |-> move_in_progress'[a],
                   tgt0 |-> sn.tgt0, tgt1 |-> target_position'[a],
                   homed0 |-> sn.homed0, homed1 |-> is_homed'[a],
                   ev0 |-> sn.ev0, ev1 |-> Len(events'[a]),
                   stopped |-> sn.stopped, polls |-> polls[a], read |-> sn.read,
                   sta |-> sn.sta, pos1 |-> last_position'[a], at |-> pc[a]]]
    /\ spawn' = IF j.kind \in {"move_abs", "move_rel"} /\ j.wait /\ ret = "True"
                  THEN [spawn EXCEPT ![a] =
                          Append(@, [Job("monitor", sn.proj, TRUE, "task") EXCEPT !.n = j.n])]
                  ELSE spawn
    /\ Resume(a, j, ret, q)
    /\ UNCHANGED <<ncalls, budget, shm>>

\* asyncio.create_task(self._wait_for_move_completion(...)): the task's first step
\* submits _monitor_completion to the axis's executor.
SubmitMonitor(a) ==
    /\ spawn[a] # <<>>
    /\ mgr.op # "disconnect_all"
    /\ queue' = [queue EXCEPT ![a] = Append(@, Head(spawn[a]))]
    /\ spawn' = [spawn EXCEPT ![a] = Tail(@)]
    /\ UNCHANGED <<mgrVars, drvVars, ioVars, job, pc, phase, polls, obsVars>>


\* ------------------------------------------------------------------ moves
\* `if position > lo and position < hi` in _move and _move_rel.
InLimitsNoUpper(p, lim) == p > lim[1]
InLimits(p, lim) == p > lim[1] /\ p < lim[2]

\* _move / _move_rel up to the command: the limit check, and on a violation the
\* raise, the ERROR event and the failure result.
MoveBegin(a, kind, label) ==
    /\ Ready(a, kind)
    /\ LET j == Head(queue[a])
           target == IF kind = "move_rel" THEN last_position[a] + j.arg ELSE j.arg
       IN  IF InLimits(target, position_limits[a])
             THEN /\ Take(a, label, target)
                  /\ UNCHANGED <<mgrVars, drvVars, ioVars, spawn, events, last>>
             ELSE /\ Emit(a, "ERROR", 0)
                  /\ UNCHANGED <<drvVars, ioVars>>
                  /\ Complete(a, j, "False", Dequeued(a), Snap(a, target))

\* _move / _move_rel after the command: state tracking and MOVE_STARTED, or the
\* except branch.
MoveSent(a, label) ==
    /\ pc[a] = label
    /\ phase[a] \in {"r", "x"}
    /\ Release(a)
    /\ UNCHANGED <<port, sent>>
    /\ \E r \in SendReplies(phase[a]) :
         IF r = "ok"
           THEN /\ move_in_progress' = [move_in_progress EXCEPT ![a] = TRUE]
                /\ target_position' = [target_position EXCEPT ![a] = Some(snap[a].proj)]
                /\ Emit(a, "MOVE_STARTED", snap[a].proj)
                /\ UNCHANGED <<last_position, is_homed, position_limits, placeholder,
                               is_connected>>
                /\ Complete(a, job[a], "True", queue, snap[a])
           ELSE /\ Emit(a, "ERROR", 0)
                /\ UNCHANGED drvVars
                /\ Complete(a, job[a], "False", queue, snap[a])

move_absolute_begin(a) == MoveBegin(a, "move_abs", "move_MVA")
move_absolute_sent(a) == MoveSent(a, "move_MVA")
move_relative_begin(a) == MoveBegin(a, "move_rel", "move_MVR")
move_relative_sent(a) == MoveSent(a, "move_MVR")

\* ------------------------------------------------------------------ stop
StopBegin(a, kind, label) ==
    /\ Ready(a, kind)
    /\ Take(a, label, 0)
    /\ UNCHANGED <<mgrVars, drvVars, ioVars, spawn, events, last>>

\* _stop / _estop after the command.
StopSent(a, label) ==
    /\ pc[a] = label
    /\ phase[a] \in {"r", "x"}
    /\ Release(a)
    /\ UNCHANGED <<port, sent, events>>
    /\ \E r \in SendReplies(phase[a]) :
         IF r = "ok"
           THEN /\ move_in_progress' = [move_in_progress EXCEPT ![a] = FALSE]
                /\ target_position' = [target_position EXCEPT ![a] = None]
                /\ UNCHANGED <<last_position, is_homed, position_limits, placeholder,
                               is_connected>>
                /\ Complete(a, job[a], "True", queue, snap[a])
           ELSE /\ UNCHANGED drvVars
                /\ Complete(a, job[a], "False", queue, snap[a])

stop_begin(a) == StopBegin(a, "stop", "stop_STP")
stop_sent(a) == StopSent(a, "stop_STP")
emergency_stop_begin(a) == StopBegin(a, "estop", "estop_EST")
emergency_stop_sent(a) == StopSent(a, "estop_EST")

\* ------------------------------------------------------------------ monitor
\* _monitor_completion: `while time.time() - start_time < timeout` is entered with
\* the clock at zero; each pass of the loop uses one poll of the timeout's budget.
monitor_begin(a) ==
    /\ Ready(a, "monitor")
    /\ Take(a, "mon_STA", Head(queue[a]).arg)
    /\ UNCHANGED <<mgrVars, drvVars, ioVars, spawn, events, last>>

\* `while time.time() - start_time < timeout` ends: the move is marked failed and
\* ERROR_OCCURRED ('Move timeout') is emitted; raw is the last status reply.
MonitorTimesOutSilently(a, raw) ==
    /\ UNCHANGED <<move_in_progress, target_position, events>>
    /\ Complete(a, job[a], "False", queue, [snap[a] EXCEPT !.sta = raw])
MonitorTimesOut(a, raw) ==
    /\ move_in_progress' = [move_in_progress EXCEPT ![a] = FALSE]
    /\ target_position' = [target_position EXCEPT ![a] = None]
    /\ Emit(a, "ERROR", 0)
    /\ Complete(a, job[a], "False", queue, [snap[a] EXCEPT !.sta = raw])

\* The except branch of _monitor_completion.
MonitorFails(a, sn) ==
    /\ move_in_progress' = [move_in_progress EXCEPT ![a] = FALSE]
    /\ target_position' = [target_position EXCEPT ![a] = None]
    /\ Emit(a, "ERROR", 0)
    /\ Complete(a, job[a], "False", queue, sn)

monitor_status(a) ==
    /\ pc[a] = "mon_STA"
    /\ phase[a] \in {"r", "x"}
    /\ Release(a)
    /\ UNCHANGED <<port, sent>>
    /\ \E raw \in StaReplies(phase[a]) :
         LET status == QueryStatus(raw, placeholder[a]) IN
         /\ placeholder' = [placeholder EXCEPT ![a] = NextPlaceholder(raw, @)]
         /\ UNCHANGED <<last_position, is_homed, position_limits, is_connected>>
         /\ CASE status = "exc" -> MonitorFails(a, snap[a])
              [] status = "stopped" ->
                   /\ Goto(a, "mon_POS", polls[a])
                   /\ snap' = [snap EXCEPT ![a].stopped = TRUE, ![a].sta = raw]
                   /\ UNCHANGED <<move_in_progress, target_position, events>>
              [] status = "moving" ->
                   IF polls[a] + 1 < MaxMonitorPolls
                     THEN /\ Goto(a, "mon_STA", polls[a] + 1)
                          /\ UNCHANGED <<move_in_progress, target_position, events, snap>>
                     ELSE MonitorTimesOut(a, raw)

monitor_position(a) ==
    /\ pc[a] = "mon_POS"
    /\ phase[a] \in {"r", "x"}
    /\ Release(a)
    /\ UNCHANGED <<port, sent, placeholder, is_homed, position_limits, is_connected>>
    /\ \E raw \in PosReplies(phase[a]) :
         LET pos == QueryPosition(raw)
             seen == [snap[a] EXCEPT !.read = IF raw.k = "data" THEN Some(raw.v) ELSE None]
         IN
         IF pos = None
           THEN /\ UNCHANGED last_position
                /\ MonitorFails(a, seen)
           ELSE LET position_error == Abs(pos[1] - job[a].arg)
                    ok == position_error <= PositionTolerance
                IN  /\ last_position' = [last_position EXCEPT ![a] = pos[1]]
                    /\ move_in_progress' = [move_in_progress EXCEPT ![a] = FALSE]
                    /\ target_position' = [target_position EXCEPT ![a] = None]
                    /\ Emit(a, "MOVE_COMPLETED", IF ok THEN 1 ELSE 0)
                    /\ Complete(a, job[a], IF ok THEN "True" ELSE "False", queue, seen)

\* ------------------------------------------------------------------ queries
get_state_begin(a) ==
    /\ Ready(a, "get_state")
    /\ Take(a, "state_STA", 0)
    /\ UNCHANGED <<mgrVars, drvVars, ioVars, spawn, events, last>>

get_state_reply(a) ==
    /\ pc[a] = "state_STA"
    /\ phase[a] \in {"r", "x"}
    /\ Release(a)
    /\ UNCHANGED <<port, sent, events>>
    /\ \E raw \in StaReplies(phase[a]) :
         LET status == QueryStatus(raw, placeholder[a]) IN
         /\ placeholder' = [placeholder EXCEPT ![a] = NextPlaceholder(raw, @)]
         /\ UNCHANGED <<last_position, is_homed, move_in_progress, target_position,
                        position_limits, is_connected>>
         /\ Complete(a, job[a],
                     CASE status = "stopped" -> "IDLE"
                       [] status = "moving" -> "MOVING"
                       [] OTHER -> "ERROR",
                     queue,
                     [snap[a] EXCEPT !.stopped = (status = "stopped"), !.sta = raw])

get_position_begin(a) ==
    /\ Ready(a, "get_position")
    /\ Take(a, "pos_POS", 0)
    /\ UNCHANGED <<mgrVars, drvVars, ioVars, spawn, events, last>>

\* _get_pos: the except branch returns Position(0.0, 0.0, "um", now).
get_position_reply(a) ==
    /\ pc[a] = "pos_POS"
    /\ phase[a] \in {"r", "x"}
    /\ Release(a)
    /\ UNCHANGED <<port, sent, events, placeholder, is_homed, move_in_progress,
                   target_position, position_limits, is_connected>>
    /\ \E raw \in PosReplies(phase[a]) :
         LET pos == QueryPosition(raw)
             seen == [snap[a] EXCEPT !.read = IF raw.k = "data" THEN Some(raw.v) ELSE None]
         IN
         IF pos = None
           THEN /\ UNCHANGED last_position
                /\ Complete(a, job[a], "Position(0.0)", queue, seen)
           ELSE /\ last_position' = [last_position EXCEPT ![a] = pos[1]]
                /\ Complete(a, job[a], "Position", queue, seen)


\* ------------------------------------------------------------------ homing
\* `self._is_homed = False` as _home starts.
HomedKept(was) == was
HomedWhileHoming(was) == FALSE

\* _home up to the first command: MOVE_STARTED, the flags, MLN or MLP.
home_begin(a) ==
    /\ Ready(a, "home")
    /\ Emit(a, "MOVE_STARTED", 0)
    /\ move_in_progress' = [move_in_progress EXCEPT ![a] = TRUE]
    /\ is_homed' = [is_homed EXCEPT ![a] = HomedWhileHoming(@)]
    /\ Take(a, IF Head(queue[a]).arg = 0 THEN "home_MLN" ELSE "home_MLP", 0)
    /\ UNCHANGED <<mgrVars, last_position, target_position, position_limits,
                   placeholder, is_connected, ioVars, spawn, last>>

\* The except branch of _home.
HomeExcept(a) ==
    IF is_homed[a]
      THEN /\ UNCHANGED events
           /\ Complete(a, job[a], "True", queue, snap[a])
      ELSE /\ Emit(a, "ERROR", 0)
           /\ Complete(a, job[a], "False", queue, snap[a])

home_driving(a) ==
    /\ pc[a] \in {"home_MLN", "home_MLP"}
    /\ phase[a] \in {"r", "x"}
    /\ Release(a)
    /\ UNCHANGED <<port, sent, drvVars>>
    /\ \E r \in SendReplies(phase[a]) :
         IF r = "ok"
           THEN /\ Goto(a, "home_STA", 0)
                /\ UNCHANGED <<events, snap>>
           ELSE HomeExcept(a)

\* `while True:` around the status query, with time.sleep(0.3) between polls.
home_status(a) ==
    /\ pc[a] = "home_STA"
    /\ phase[a] \in {"r", "x"}
    /\ Release(a)
    /\ UNCHANGED <<port, sent>>
    /\ \E raw \in StaReplies(phase[a]) :
         LET status == QueryStatus(raw, placeholder[a]) IN
         /\ placeholder' = [placeholder EXCEPT ![a] = NextPlaceholder(raw, @)]
         /\ UNCHANGED <<last_position, is_homed, move_in_progress, target_position,
                        position_limits, is_connected>>
         /\ CASE status = "exc" -> HomeExcept(a)
              [] status = "stopped" ->
                   /\ Goto(a, IF job[a].arg = 0 THEN "home_ZRO" ELSE "home_POS", polls[a])
                   /\ snap' = [snap EXCEPT ![a].stopped = TRUE, ![a].sta = raw]
                   /\ UNCHANGED events
              [] status = "moving" ->
                   /\ polls[a] < HomePollCap
                   /\ Goto(a, "home_STA", polls[a] + 1)
                   /\ UNCHANGED <<events, snap>>

\* `self._is_homed = True`, before the HOMED event is emitted.
HomedLeft(was) == was
HomedSet(was) == TRUE

\* direction == 0: ZRO, then the flag and the cached position.
home_zero(a) ==
    /\ pc[a] = "home_ZRO"
    /\ phase[a] \in {"r", "x"}
    /\ Release(a)
    /\ UNCHANGED <<port, sent>>
    /\ \E r \in SendReplies(phase[a]) :
         IF r = "ok"
           THEN /\ is_homed' = [is_homed EXCEPT ![a] = HomedSet(@)]
                /\ last_position' = [last_position EXCEPT ![a] = 0]
                /\ Emit(a, "HOMED", job[a].arg)
                /\ UNCHANGED <<move_in_progress, target_position, position_limits,
                               placeholder, is_connected>>
                /\ Complete(a, job[a], "True", queue, snap[a])
           ELSE /\ UNCHANGED drvVars
                /\ HomeExcept(a)

\* direction != 0: the position read becomes the cached position.
home_position(a) ==
    /\ pc[a] = "home_POS"
    /\ phase[a] \in {"r", "x"}
    /\ Release(a)
    /\ UNCHANGED <<port, sent>>
    /\ \E raw \in PosReplies(phase[a]) :
         LET pos == QueryPosition(raw) IN
         IF pos = None
           THEN /\ UNCHANGED drvVars
                /\ HomeExcept(a)
           ELSE /\ last_position' = [last_position EXCEPT ![a] = pos[1]]
                /\ is_homed' = [is_homed EXCEPT ![a] = HomedSet(@)]
                /\ Emit(a, "HOMED", job[a].arg)
                /\ UNCHANGED <<move_in_progress, target_position, position_limits,
                               placeholder, is_connected>>
                /\ Complete(a, job[a], "True", queue, snap[a])

\* ------------------------------------------------------------------ home_limits
HomeLimitsFails(a, sn) ==
    /\ Emit(a, "ERROR", 0)
    /\ Complete(a, job[a], "False", queue, sn)

home_limits_begin(a) ==
    /\ Ready(a, "home_limits")
    /\ Emit(a, "MOVE_STARTED", 0)
    /\ Take(a, "hl_MLN", 0)
    /\ UNCHANGED <<mgrVars, drvVars, ioVars, spawn, last>>

\* After MLN, ZRO and MLP.
home_limits_sent(a) ==
    /\ pc[a] \in {"hl_MLN", "hl_ZRO", "hl_MLP"}
    /\ phase[a] \in {"r", "x"}
    /\ Release(a)
    /\ UNCHANGED <<port, sent, is_homed, move_in_progress, target_position,
                   position_limits, placeholder, is_connected>>
    /\ \E r \in SendReplies(phase[a]) :
         IF r = "ok"
           THEN /\ last_position' = IF pc[a] = "hl_ZRO"
                                      THEN [last_position EXCEPT ![a] = 0]
                                      ELSE last_position
                /\ Goto(a, CASE pc[a] = "hl_MLN" -> "hl_STA1"
                             [] pc[a] = "hl_ZRO" -> "hl_MLP"
                             [] pc[a] = "hl_MLP" -> "hl_STA2", 0)
                /\ UNCHANGED <<events, snap>>
           ELSE /\ UNCHANGED last_position
                /\ HomeLimitsFails(a, snap[a])

\* The two `while True:` loops.
home_limits_status(a) ==
    /\ pc[a] \in {"hl_STA1", "hl_STA2"}
    /\ phase[a] \in {"r", "x"}
    /\ Release(a)
    /\ UNCHANGED <<port, sent>>
    /\ \E raw \in StaReplies(phase[a]) :
         LET status == QueryStatus(raw, placeholder[a]) IN
         /\ placeholder' = [placeholder EXCEPT ![a] = NextPlaceholder(raw, @)]
         /\ UNCHANGED <<last_position, is_homed, move_in_progress, target_position,
                        position_limits, is_connected>>
         /\ CASE status = "exc" -> HomeLimitsFails(a, snap[a])
              [] status = "stopped" ->
                   /\ Goto(a, IF pc[a] = "hl_STA1" THEN "hl_POS1" ELSE "hl_POS2", polls[a])
                   /\ snap' = [snap EXCEPT ![a].stopped = TRUE, ![a].sta = raw]
                   /\ UNCHANGED events
              [] status = "moving" ->
                   /\ polls[a] < HomePollCap
                   /\ Goto(a, pc[a], polls[a] + 1)
                   /\ UNCHANGED <<events, snap>>

\* pos_resp2.split(",") on the list that _query_command returns for POS? raises
\* AttributeError.
ListSplit(fields) == None

\* The position reads at the negative and at the positive end.
home_limits_position(a) ==
    /\ pc[a] \in {"hl_POS1", "hl_POS2"}
    /\ phase[a] \in {"r", "x"}
    /\ Release(a)
    /\ UNCHANGED <<port, sent, is_homed, move_in_progress, target_position,
                   placeholder, is_connected>>
    /\ \E raw \in PosReplies(phase[a]) :
         LET pos == QueryPosition(raw)
             top == IF pos = None THEN None ELSE ListSplit(pos)
             seen == [snap[a] EXCEPT !.read = IF raw.k = "data" THEN Some(raw.v) ELSE None]
         IN  CASE pos = None ->
                    /\ UNCHANGED <<last_position, position_limits>>
                    /\ HomeLimitsFails(a, seen)
               [] pos # None /\ pc[a] = "hl_POS1" ->
                    /\ Goto(a, "hl_ZRO", 0)
                    /\ UNCHANGED <<last_position, position_limits, events, snap>>
               [] pos # None /\ pc[a] = "hl_POS2" /\ top = None ->
                    /\ UNCHANGED <<last_position, position_limits>>
                    /\ HomeLimitsFails(a, seen)
               [] OTHER ->
                    /\ last_position' = [last_position EXCEPT ![a] = top[1]]
                    /\ position_limits' = [position_limits EXCEPT ![a] = <<0, top[1]>>]
                    /\ Emit(a, "HOMED", 0)
                    /\ Complete(a, job[a], "True", queue, seen)

\* ------------------------------------------------------------------ connect
\* _connect up to the first command: _get_shared_serial() / open() either give an
\* open port or raise.
connect_begin(a) ==
    /\ Ready(a, "connect")
    /\ \E opened \in BOOLEAN :
         IF port = "open" \/ opened
           THEN /\ port' = "open"
                /\ Take(a, "connect_FBK", 0)
                /\ UNCHANGED <<mgrVars, drvVars, serial_lock, sent, spawn, events, last>>
           ELSE /\ UNCHANGED <<drvVars, ioVars, events>>
                /\ Complete(a, Head(queue[a]), "False", Dequeued(a), Snap(a, 0))

\* The driver object that initialize() has just constructed, once connected.
NewDriver(a) ==
    /\ last_position' = [last_position EXCEPT ![a] = 0]
    /\ is_homed' = [is_homed EXCEPT ![a] = FALSE]
    /\ move_in_progress' = [move_in_progress EXCEPT ![a] = FALSE]
    /\ target_position' = [target_position EXCEPT ![a] = None]
    /\ position_limits' = [position_limits EXCEPT ![a] = cfg_limits[a]]
    /\ placeholder' = [placeholder EXCEPT ![a] = ""]
    /\ is_connected' = [is_connected EXCEPT ![a] = TRUE]

connect_sent(a) ==
    /\ pc[a] \in {"connect_FBK", "connect_VEL"}
    /\ phase[a] \in {"r", "x"}
    /\ Release(a)
    /\ UNCHANGED <<port, sent, events>>
    /\ \E r \in SendReplies(phase[a]) :
         CASE r = "ok" /\ pc[a] = "connect_FBK" ->
                /\ Goto(a, "connect_VEL", 0)
                /\ UNCHANGED <<drvVars, snap>>
           [] r = "ok" /\ pc[a] = "connect_VEL" ->
                /\ IF job[a].via = "initialize"
                     THEN NewDriver(a)
                     ELSE /\ is_connected' = [is_connected EXCEPT ![a] = TRUE]
                          /\ UNCHANGED <<last_position, is_homed, move_in_progress,
                                         target_position, position_limits, placeholder>>
                /\ Complete(a, job[a], "True", queue, snap[a])
           [] OTHER ->
                /\ UNCHANGED drvVars
                /\ Complete(a, job[a], "False", queue, snap[a])


\* ------------------------------------------------------------------ StageManager
\* requires_motor: `if axis not in self.motors: ... return False`.
requires_nothing(a) == TRUE
requires_motor(a) == a \in motors

\* A manager operation on one axis: the requires_motor wrapper, then the body's
\* self.motors[axis], which raises KeyError for an axis with no entry, then the
\* driver call, which submits the job to the axis's executor.
\* loop.run_in_executor(self._executor, ...): the executor's work queue is first
\* in, first out.
SubmitFirst(q, j) == <<j>> \o q
Submit(q, j) == Append(q, j)

\* The place of the latest single-axis call on axis a that has a job waiting or
\* running or a command written.
LatestCall(a) ==
    LET S == {job[a].n} \cup {queue[a][i].n : i \in 1..Len(queue[a])}
                        \cup {spawn[a][i].n : i \in 1..Len(spawn[a])}
                        \cup {sent[a][i].n : i \in 1..Len(sent[a])}
    IN  CHOOSE m \in S : \A x \in S : x <= m

Delegate(op, a, j) ==
    /\ ncalls < budget
    /\ mgr.op \notin {"initialize", "disconnect_all"}
    /\ ncalls' = ncalls + 1
    /\ UNCHANGED <<budget, shm>>
    /\ CASE ~requires_motor(a) ->
              /\ Returned(op, a, a \in motors, "False")
              /\ UNCHANGED queue
         [] requires_motor(a) /\ a \notin motors ->
              /\ Returned(op, a, FALSE, "raised")
              /\ UNCHANGED queue
         [] OTHER ->
              /\ queue' = [queue EXCEPT ![a] = Submit(@, [j EXCEPT !.n = LatestCall(a) + 1])]
              /\ UNCHANGED callret
    /\ UNCHANGED <<motors, last_positions, cfg_limits, sinks, event_callbacks, mgr, drvVars, ioVars,
                   job, pc, phase, polls, spawn, obsVars>>

mgr_move_single_axis(a, position, relative, wait) ==
    Delegate("move_single_axis", a,
             Job(IF relative THEN "move_rel" ELSE "move_abs", position, wait,
                 "move_single_axis"))

mgr_home_axis(a, direction) ==
    Delegate("home_axis", a, Job("home", direction, FALSE, "home_axis"))

\* stop_axis; the job's arg notes whether a completion monitor was polling.
mgr_stop_axis(a) ==
    Delegate("stop_axis", a,
             Job("stop", IF job[a].kind = "monitor" THEN 1 ELSE 0, FALSE, "stop_axis"))

mgr_get_position(a) ==
    Delegate("get_position", a, Job("get_position", 0, FALSE, "get_position"))

mgr_get_state(a) ==
    Delegate("get_state", a, Job("get_state", 0, FALSE, "get_state"))

\* home_limits: for Z, first the Y move to the configured upper limit.
mgr_home_limits(a) ==
    IF a = "Z" /\ requires_motor(a)
      THEN IF "Y" \in motors
             THEN Delegate("home_limits", "Y",
                           Job("move_abs", cfg_limits["Y"][2], TRUE, "home_limits_Y"))
             ELSE /\ ncalls < budget
                  /\ mgr.op \notin {"initialize", "disconnect_all"}
                  /\ ncalls' = ncalls + 1
                  /\ UNCHANGED <<budget, shm>>
                  /\ Returned("home_limits", a, TRUE, "raised")
                  /\ UNCHANGED <<motors, last_positions, cfg_limits, sinks, event_callbacks, mgr, drvVars,
                                 ioVars, workVars, obsVars>>
      ELSE Delegate("home_limits", a, Job("home_limits", 0, FALSE, "home_limits"))

Quiet(a) == job[a] = NoJob /\ queue[a] = <<>> /\ spawn[a] = <<>>

\* initialize(axes): one new driver per axis, connected in turn.  The model
\* follows a call made while the requested axes have no job in flight.
mgr_initialize(S) ==
    /\ ncalls < budget
    /\ mgr.op = "none"
    /\ \A a \in S : Quiet(a)
    /\ ncalls' = ncalls + 1
    /\ UNCHANGED <<budget, shm>>
    /\ IF S = {}
         THEN /\ mgr' = [NoMgr EXCEPT !.req = S, !.before = motors]
              /\ Returned("initialize", "all", TRUE, "True")
              /\ UNCHANGED queue
         ELSE /\ mgr' = [NoMgr EXCEPT !.op = "initialize", !.todo = InOrder(S),
                                      !.req = S, !.before = motors]
              /\ queue' = [queue EXCEPT ![Head(InOrder(S))] =
                             Append(@, Job("connect", 0, FALSE, "initialize"))]
              /\ UNCHANGED callret
    /\ UNCHANGED <<motors, last_positions, cfg_limits, sinks, event_callbacks, drvVars, ioVars,
                   job, pc, phase, polls, spawn, obsVars>>

\* The axis's worker is inside a polling loop: the completion monitor's, or _home's.
Looping(a) == pc[a] \in {"mon_STA", "home_STA"}

\* emergency_stop; the first job's arg notes whether every live axis was inside a
\* polling loop at the call.
mgr_emergency_stop ==
    /\ ncalls < budget
    /\ mgr.op = "none"
    /\ ncalls' = ncalls + 1
    /\ UNCHANGED <<budget, shm>>
    /\ IF motors = {}
         THEN /\ mgr' = [NoMgr EXCEPT !.req = motors, !.before = motors]
              /\ Returned("emergency_stop", "all", TRUE, "False")
              /\ UNCHANGED queue
         ELSE /\ mgr' = [NoMgr EXCEPT !.op = "emergency_stop", !.todo = InOrder(motors),
                                      !.req = motors, !.before = motors]
              /\ queue' = [queue EXCEPT ![Head(InOrder(motors))] =
                             Append(@, Job("estop",
                                           IF \A a \in motors : Looping(a) THEN 1 ELSE 0,
                                           FALSE, "emergency_stop"))]
              /\ UNCHANGED callret
    /\ UNCHANGED <<motors, last_positions, cfg_limits, sinks, event_callbacks, drvVars, ioVars,
                   job, pc, phase, polls, spawn, obsVars>>

\* connect() called again on the driver of a live, connected axis.
reconnect(a) ==
    /\ ncalls < budget
    /\ mgr.op = "none"
    /\ a \in motors /\ is_connected[a]
    /\ ncalls' = ncalls + 1
    /\ queue' = [queue EXCEPT ![a] = Append(@, Job("connect", 0, FALSE, "connect"))]
    /\ UNCHANGED <<motors, last_positions, cfg_limits, sinks, event_callbacks, mgr, callret,
                   budget, shm, drvVars, ioVars, job, pc, phase, polls, spawn, obsVars>>

\* add_event_callback: append to self._event_callbacks.
add_event_callback(o) ==
    /\ Len(event_callbacks) < MaxObservers
    /\ mgr.op # "disconnect_all"
    /\ event_callbacks' = Append(event_callbacks, o)
    /\ UNCHANGED <<motors, last_positions, cfg_limits, sinks, mgr, callret, ncalls, budget, shm,
                   drvVars, ioVars, workVars, obsVars>>

\* move_xy_rel: both legs are started as tasks, then gathered.
mgr_move_xy_rel(dx, dy, wait) ==
    /\ ncalls < budget
    /\ mgr.op = "none"
    /\ ncalls' = ncalls + 1
    /\ UNCHANGED <<budget, shm>>
    /\ IF "X" \notin motors \/ "Y" \notin motors
         THEN /\ Returned("move_xy_rel", "all", FALSE, "False")
              /\ UNCHANGED <<queue, mgr>>
         ELSE /\ mgr' = [mgr EXCEPT !.op = "move_xy_rel",
                                    !.dist = [a \in Axes |-> CASE a = "X" -> dx
                                                              [] a = "Y" -> dy
                                                              [] OTHER -> 0],
                                    !.xy = [a \in Axes |-> "none"]]
              /\ queue' = [queue EXCEPT
                             !["X"] = Append(@, Job("move_rel", dx, wait, "move_xy_rel")),
                             !["Y"] = Append(@, Job("move_rel", dy, wait, "move_xy_rel"))]
              /\ UNCHANGED callret
    /\ UNCHANGED <<motors, last_positions, cfg_limits, sinks, event_callbacks, drvVars, ioVars,
                   job, pc, phase, polls, spawn, obsVars>>

\* move_xy_absolute: as move_xy_rel, with move_absolute for the two legs.
\* wait_for_all_moves_complete(timeout=60.0): rounds of is_any_axis_moving,
\* which asks the live motors one after the other.
mgr_wait_for_all_moves_complete ==
    /\ ncalls < budget
    /\ mgr.op = "none"
    /\ ncalls' = ncalls + 1
    /\ UNCHANGED <<budget, shm>>
    /\ IF motors = {}
         THEN /\ mgr' = [mgr EXCEPT !.req = motors, !.res = [a \in Axes |-> "none"],
                                    !.round = 1]
              /\ Returned("wait_for_all_moves_complete", "all", TRUE, "True")
              /\ UNCHANGED queue
         ELSE /\ mgr' = [mgr EXCEPT !.op = "wait_for_all_moves_complete",
                                    !.todo = InOrder(motors), !.req = motors,
                                    !.res = [a \in Axes |-> "none"], !.round = 1]
              /\ queue' = [queue EXCEPT ![Head(InOrder(motors))] =
                             Append(@, Job("get_state", 0, FALSE,
                                           "wait_for_all_moves_complete"))]
              /\ UNCHANGED callret
    /\ UNCHANGED <<motors, last_positions, cfg_limits, sinks, event_callbacks, drvVars, ioVars,
                   job, pc, phase, polls, spawn, obsVars>>

mgr_move_xy_absolute(x, y, wait) ==
    /\ ncalls < budget
    /\ mgr.op = "none"
    /\ ncalls' = ncalls + 1
    /\ UNCHANGED <<budget, shm>>
    /\ IF "X" \notin motors \/ "Y" \notin motors
         THEN /\ Returned("move_xy_absolute", "all", FALSE, "False")
              /\ UNCHANGED <<queue, mgr>>
         ELSE /\ mgr' = [mgr EXCEPT !.op = "move_xy_absolute",
                                    !.dist = [a \in Axes |-> CASE a = "X" -> x
                                                              [] a = "Y" -> y
                                                              [] OTHER -> 0],
                                    !.xy = [a \in Axes |-> "none"]]
              /\ queue' = [queue EXCEPT
                             !["X"] = Append(@, Job("move_abs", x, wait, "move_xy_absolute")),
                             !["Y"] = Append(@, Job("move_abs", y, wait, "move_xy_absolute"))]
              /\ UNCHANGED callret
    /\ UNCHANGED <<motors, last_positions, cfg_limits, sinks, event_callbacks, drvVars, ioVars,
                   job, pc, phase, polls, spawn, obsVars>>

\* get_all_positions: `if axis in self.motors` selects the axes that are read.
LiveOrNot(S) == S
LiveOnly(S) == S \cap motors

\* get_all_positions: get_position for each live axis in turn, 0.0 for the others.
mgr_get_all_positions ==
    /\ ncalls < budget
    /\ mgr.op = "none"
    /\ ncalls' = ncalls + 1
    /\ UNCHANGED <<budget, shm>>
    /\ IF LiveOnly(Axes) = {}
         THEN /\ mgr' = [mgr EXCEPT !.req = motors, !.data = [a \in Axes |-> 0]]
              /\ Returned("get_all_positions", "all", TRUE, "data")
              /\ UNCHANGED queue
         ELSE /\ mgr' = [mgr EXCEPT !.op = "get_all_positions",
                                    !.todo = InOrder(LiveOnly(Axes)), !.req = motors,
                                    !.data = [a \in Axes |-> 0]]
              /\ queue' = [queue EXCEPT ![Head(InOrder(LiveOnly(Axes)))] =
                             Append(@, Job("get_position", 0, FALSE, "get_all_positions"))]
              /\ UNCHANGED callret
    /\ UNCHANGED <<motors, last_positions, cfg_limits, sinks, event_callbacks, drvVars, ioVars,
                   job, pc, phase, polls, spawn, obsVars>>

\* load_params: the homed check logs and leaves its own loop with `break`; the
\* presets are then applied in the order of initial_positions, each with
\* wait_for_completion=True.
mgr_load_params ==
    /\ ncalls < budget
    /\ mgr.op = "none"
    /\ ncalls' = ncalls + 1
    /\ UNCHANGED <<budget, shm>>
    /\ IF Head(AxisOrder) \notin motors
         THEN /\ mgr' = [NoMgr EXCEPT !.req = motors,
                                      !.unhomed = {a \in motors : ~is_homed[a]}]
              /\ Returned("load_params", "all", TRUE, "raised")
              /\ UNCHANGED queue
         ELSE /\ mgr' = [NoMgr EXCEPT !.op = "load_params", !.todo = AxisOrder,
                                      !.req = motors,
                                      !.unhomed = {a \in motors : ~is_homed[a]}]
              /\ queue' = [queue EXCEPT ![Head(AxisOrder)] =
                             Append(@, Job("move_abs", InitialPositions[Head(AxisOrder)],
                                           TRUE, "load_params"))]
              /\ UNCHANGED callret
    /\ UNCHANGED <<motors, last_positions, cfg_limits, sinks, event_callbacks, drvVars, ioVars,
                   job, pc, phase, polls, spawn, obsVars>>

\* disconnect(): `self._serial_port.close()`, outside any `with self._serial_lock`.
Closed(p) == IF p = "open" THEN "closed" ELSE p

\* disconnect_all: disconnect() of every live driver, each inside _safe_execute,
\* then both dictionaries are cleared.  disconnect() closes the shared port if it
\* is open and shuts the axis's executor down, waiting for the job its worker is
\* running; it writes nothing.  The model follows a call made while no job is queued
\* behind the running ones and no monitor is waiting to be started; a close() that
\* raises is followed for an idle stage.  While the call waits in
\* executor.shutdown(wait=True) the event loop is blocked.
mgr_disconnect_all ==
    /\ ncalls < budget
    /\ mgr.op = "none"
    /\ \A a \in motors : queue[a] = <<>> /\ spawn[a] = <<>>
    /\ ncalls' = ncalls + 1
    /\ IF \A a \in motors : Quiet(a)
         THEN /\ \E closes \in BOOLEAN :
                   port' = IF motors # {} /\ closes THEN Closed(port) ELSE port
              /\ motors' = {}
              /\ last_positions' = [a \in Axes |-> None]
              /\ sinks' = {}
              /\ mgr' = [NoMgr EXCEPT !.req = motors, !.before = motors]
              /\ Returned("disconnect_all", "all", TRUE, "None")
         ELSE /\ port' = Closed(port)
              /\ mgr' = [NoMgr EXCEPT !.op = "disconnect_all", !.req = motors,
                                      !.before = motors]
              /\ UNCHANGED <<motors, last_positions, sinks, callret>>
    /\ UNCHANGED <<cfg_limits, event_callbacks, budget, shm, drvVars, serial_lock, sent,
                   workVars, obsVars>>

\* disconnect_all, once the workers have finished the jobs they were running: a
\* monitor task created meanwhile finds its executor shut down and ends there.
mgr_disconnect_all_return ==
    /\ mgr.op = "disconnect_all"
    /\ \A a \in motors : job[a] = NoJob /\ queue[a] = <<>>
    /\ motors' = {}
    /\ last_positions' = [a \in Axes |-> None]
    /\ sinks' = {}
    /\ spawn' = [a \in Axes |-> IF a \in motors THEN <<>> ELSE spawn[a]]
    /\ mgr' = [mgr EXCEPT !.op = "none"]
    /\ Returned("disconnect_all", "all", TRUE, "None")
    /\ UNCHANGED <<cfg_limits, event_callbacks, ncalls, budget, shm, drvVars, ioVars,
                   queue, job, pc, phase, polls, obsVars>>

\* ------------------------------------------------------------------ shared snapshot
\* The process that creates the regions, and the child processes of
\* test_shared_stage.py that attach to them.
Owner == "main"
Procs == {"main", "writer", "reader"}
Regions == {"config", "stage_position"}

NoRegion == [created |-> FALSE, linked |-> FALSE, shutdown |-> FALSE, buf |-> <<>>]
NoShm == [region |-> [r \in Regions |-> NoRegion],
          \* what to_shared_memory was given and the length it returned
          cfg |-> None, length |-> 0,
          \* per process: its view of stage_position (the struct's content when it
          \* attached), the configuration it decoded, the position record it read
          view |-> [p \in Procs |-> None],
          got |-> [p \in Procs |-> None],
          seen |-> [p \in Procs |-> None],
          attaches |-> 0]

stageVars == <<motors, last_positions, cfg_limits, sinks, event_callbacks, mgr, callret,
               ncalls, budget, drvVars, ioVars, workVars, obsVars>>

\* StageConfiguration values: the default endpoint or another, maps over some axes.
Ports == {"/dev/ttyUSB0", "COM3"}
Configs ==
    {[com_port |-> port_name, baudrate |-> 38400, timeout |-> 3,
      velocities |-> [a \in S |-> 2000 + AXIS_MAP[a]],
      position_limits |-> [a \in S |-> <<0 - AXIS_MAP[a], hi>>]] :
        port_name \in Ports, S \in {{}, {"X"}, Axes}, hi \in {Range, Range + 1}}

\* ax.name of an AxisType member, and AxisType[name].
AxisName(ax) == ax
AxisTypeOf(name) == CHOOSE ax \in Axes : AxisName(ax) = name

\* json.dumps of the dictionary built in to_shared_memory, as the sequence of its
\* tokens: each map is written as its size and then its items, a limit pair as its
\* two numbers.
RECURSIVE VelocityItems(_, _)
VelocityItems(f, keys) ==
    IF keys = <<>> THEN <<>>
    ELSE <<AxisName(Head(keys)), f[Head(keys)]>> \o VelocityItems(f, Tail(keys))
RECURSIVE LimitItems(_, _)
LimitItems(f, keys) ==
    IF keys = <<>> THEN <<>>
    ELSE <<AxisName(Head(keys)), f[Head(keys)][1], f[Head(keys)][2]>>
           \o LimitItems(f, Tail(keys))
JsonDumps(c) ==
    <<"com_port", c.com_port, "baudrate", c.baudrate, "timeout", c.timeout,
      "velocities", Cardinality(DOMAIN c.velocities)>>
      \o VelocityItems(c.velocities, InOrder(DOMAIN c.velocities))
      \o <<"position_limits", Cardinality(DOMAIN c.position_limits)>>
      \o LimitItems(c.position_limits, InOrder(DOMAIN c.position_limits))

\* json.loads and the rebuilding of the two maps with AxisType keys and tuple
\* values; JSONDecodeError for text that is not a complete document.
JSONDecodeError == [raised |-> "JSONDecodeError"]
JsonLoads(t) ==
    IF Len(t) < 10 THEN JSONDecodeError
    ELSE LET n == t[8] IN
         IF Len(t) < 10 + 2 * n THEN JSONDecodeError
         ELSE LET m == t[10 + 2 * n] IN
              IF Len(t) # 10 + 2 * n + 3 * m THEN JSONDecodeError
              ELSE LET vkey(i) == t[7 + 2 * i]
                       lkey(i) == t[8 + 2 * n + 3 * i]
                   IN  [com_port |-> t[2], baudrate |-> t[4], timeout |-> t[6],
                        velocities |->
                          [a \in {AxisTypeOf(vkey(i)) : i \in 1..n} |->
                             LET i == CHOOSE k \in 1..n : AxisTypeOf(vkey(k)) = a
                             IN  t[8 + 2 * i]],
                        position_limits |->
                          [a \in {AxisTypeOf(lkey(i)) : i \in 1..m} |->
                             LET i == CHOOSE k \in 1..m : AxisTypeOf(lkey(k)) = a
                             IN  <<t[9 + 2 * n + 3 * i], t[10 + 2 * n + 3 * i]>>]]

\* bytes(shm.buf[:length])
ReadBytesShort(buf, length) == SubSeq(buf, 1, length - 1)
ReadBytes(buf, length) == SubSeq(buf, 1, length)

\* shm.close() in a process that attached: the mapping goes, the name stays.
DetachedAndUnlinked(reg) == [reg EXCEPT !.linked = FALSE]
Detached(reg) == reg

\* StagePositionStruct.from_buffer(shm.buf): the struct is the region's memory, not
\* a copy taken when the process attached.
from_buffer_copy(memory, attached) == attached
from_buffer(memory, attached) == memory

\* to_shared_memory: a new block of len(js) bytes, filled with the document.
to_shared_memory(c) ==
    /\ ~shm.region["config"].created
    /\ shm' = [shm EXCEPT !.region["config"] =
                            [created |-> TRUE, linked |-> TRUE, shutdown |-> FALSE,
                             buf |-> JsonDumps(c)],
                          !.cfg = Some(c),
                          !.length = Len(JsonDumps(c))]
    /\ UNCHANGED stageVars

\* from_shared_memory in another process: attach by name, read, decode, close.
from_shared_memory(p) ==
    /\ p # Owner
    /\ shm.attaches < MaxAttach
    /\ shm.region["config"].linked
    /\ LET raw == ReadBytes(shm.region["config"].buf, shm.length) IN
       shm' = [shm EXCEPT !.got[p] = Some(JsonLoads(raw)),
                          !.region["config"] = Detached(@),
                          !.attaches = @ + 1]
    /\ UNCHANGED stageVars

\* view.__init__() on the new block: every axis at 0.0 and not homed.
StagePositionStruct == [a \in Axes |-> [position |-> 0, is_homed |-> FALSE]]

\* create_shared_stage_position: SharedMemory(create=True) raises FileExistsError
\* while the name exists.
create_shared_stage_position ==
    /\ ~shm.region["stage_position"].linked
    /\ ~shm.region["stage_position"].created
    /\ shm' = [shm EXCEPT !.region["stage_position"] =
                            [created |-> TRUE, linked |-> TRUE, shutdown |-> FALSE,
                             buf |-> StagePositionStruct],
                          !.view[Owner] = Some(StagePositionStruct)]
    /\ UNCHANGED stageVars

\* open_shared_stage_position: attach by name; FileNotFoundError once unlinked.
open_shared_stage_position(p) ==
    /\ p # Owner
    /\ shm.attaches < MaxAttach
    /\ shm.view[p] = None
    /\ shm.region["stage_position"].linked
    /\ shm' = [shm EXCEPT !.view[p] = Some(shm.region["stage_position"].buf),
                          !.attaches = @ + 1]
    /\ UNCHANGED stageVars

\* StagePosition.set_positions / set_homed through a process's view.
set_positions(p, a, v) ==
    /\ shm.view[p] # None
    /\ shm' = [shm EXCEPT !.region["stage_position"].buf[a].position = v]
    /\ UNCHANGED stageVars

set_homed(p, a) ==
    /\ shm.view[p] # None
    /\ shm' = [shm EXCEPT !.region["stage_position"].buf[a].is_homed = TRUE]
    /\ UNCHANGED stageVars

\* sp.x.position, sp.x.is_homed, ... read through a process's view.
read_positions(p) ==
    /\ shm.view[p] # None
    /\ shm' = [shm EXCEPT !.seen[p] =
                 Some([read |-> from_buffer(shm.region["stage_position"].buf,
                                            shm.view[p][1]),
                       memory |-> shm.region["stage_position"].buf])]
    /\ UNCHANGED stageVars

\* shm.close() in writer() and reader().
shm_close(p) ==
    /\ p # Owner
    /\ shm.view[p] # None
    /\ shm' = [shm EXCEPT !.view[p] = None,
                          !.region["stage_position"] = Detached(@)]
    /\ UNCHANGED stageVars

\* safe_shm_shutdown in the creating process: close, then unlink.
safe_shm_shutdown(r) ==
    /\ shm.region[r].created
    /\ ~shm.region[r].shutdown
    /\ shm' = [shm EXCEPT !.region[r].linked = FALSE,
                          !.region[r].shutdown = TRUE,
                          !.view[Owner] = IF r = "stage_position" THEN None ELSE @]
    /\ UNCHANGED stageVars

\* ------------------------------------------------------------------ specification
\* StageManager.__init__ and the module globals.
InitFresh ==
    /\ motors = {}
    /\ last_positions = [a \in Axes |-> None]
    /\ sinks = {}
    /\ port = "none"
    /\ is_connected = [a \in Axes |-> FALSE]
    /\ sent = [a \in Axes |-> <<>>]

\* The state in which initialize(all axes) has returned True.
InitLive ==
    /\ motors = Axes
    /\ last_positions = [a \in Axes |-> Some(0)]
    /\ sinks = Axes
    /\ port = "open"
    /\ is_connected = [a \in Axes |-> TRUE]
    /\ sent = [a \in Axes |-> <<[axis |-> AXIS_MAP[a], op |-> "FBK3", arg |-> 0,
                                 by |-> "connect", n |-> 0],
                               [axis |-> AXIS_MAP[a], op |-> "VEL", arg |-> 0,
                                 by |-> "connect", n |-> 0]>>]

IdleWithin(limits) ==
    /\ cfg_limits = limits
    /\ event_callbacks = <<>>
    /\ shm = NoShm
    /\ mgr = NoMgr
    /\ callret = [n |-> 0, op |-> "none", axis |-> "all", live |-> TRUE, ret |-> "None"]
    /\ ncalls = 0
    /\ last_position = [a \in Axes |-> 0]
    /\ is_homed = [a \in Axes |-> FALSE]
    /\ move_in_progress = [a \in Axes |-> FALSE]
    /\ target_position = [a \in Axes |-> None]
    /\ position_limits = limits
    /\ placeholder = [a \in Axes |-> ""]
    /\ serial_lock = "free"
    /\ queue = [a \in Axes |-> <<>>]
    /\ job = [a \in Axes |-> NoJob]
    /\ pc = [a \in Axes |-> "idle"]
    /\ phase = [a \in Axes |-> "-"]
    /\ polls = [a \in Axes |-> 0]
    /\ spawn = [a \in Axes |-> <<>>]
    /\ events = [a \in Axes |-> <<>>]
    /\ snap = [a \in Axes |-> NoSnap]
    /\ last = [a \in Axes |-> NoLast]

Idle == IdleWithin(DefaultLimits)

\* The state in which initialize([X]) has returned True.
InitOne ==
    /\ motors = {"X"}
    /\ last_positions = [a \in Axes |-> IF a = "X" THEN Some(0) ELSE None]
    /\ sinks = {"X"}
    /\ port = "open"
    /\ is_connected = [a \in Axes |-> a = "X"]
    /\ sent = [a \in Axes |-> IF a = "X"
                                THEN <<[axis |-> AXIS_MAP[a], op |-> "FBK3", arg |-> 0,
                                 by |-> "connect", n |-> 0],
                                       [axis |-> AXIS_MAP[a], op |-> "VEL", arg |-> 0,
                                 by |-> "connect", n |-> 0]>>
                                ELSE <<>>]

\* A stage whose axes are all live.
Init == InitLive /\ Idle /\ budget = MaxOps

\* A manager just constructed, or one whose axes are all live.
InitMgr == (InitFresh \/ InitLive) /\ Idle /\ budget = MaxStageOps

Transport(a) == WriteCommand(a) \/ SubmitMonitor(a)

MoveJobs(a) ==
    \/ move_absolute_begin(a) \/ move_absolute_sent(a)
    \/ move_relative_begin(a) \/ move_relative_sent(a)
    \/ monitor_begin(a) \/ monitor_status(a) \/ monitor_position(a)
    \/ stop_begin(a) \/ stop_sent(a)

HomeJobs(a) ==
    \/ home_begin(a) \/ home_driving(a) \/ home_status(a)
    \/ home_zero(a) \/ home_position(a)

StageJobs(a) ==
    \/ connect_begin(a) \/ connect_sent(a)
    \/ emergency_stop_begin(a) \/ emergency_stop_sent(a)
    \/ get_position_begin(a) \/ get_position_reply(a)
    \/ home_limits_begin(a) \/ home_limits_sent(a) \/ home_limits_status(a)
    \/ home_limits_position(a)

StateJobs(a) == get_state_begin(a) \/ get_state_reply(a)

\* The orchestrator driving live axes: single-axis operations, issued at any time.
DrivenAxes == {"X"}
DriveAxis ==
    \/ \E a \in DrivenAxes, p \in Targets, relative \in BOOLEAN, wait \in BOOLEAN :
         mgr_move_single_axis(a, p, relative, wait)
    \/ \E a \in DrivenAxes, d \in {0, 1} : mgr_home_axis(a, d)
    \/ \E a \in DrivenAxes : mgr_stop_axis(a)
    \/ \E a \in DrivenAxes : mgr_get_state(a)

\* The orchestrator setting the stage up and shutting it down.
ManageStage ==
    \/ \E a \in Axes, p \in {0}, relative \in BOOLEAN :
         mgr_move_single_axis(a, p, relative, TRUE)
    \/ \E a \in Axes, d \in {0, 1} : mgr_home_axis(a, d)
    \/ \E a \in Axes : mgr_stop_axis(a)
    \/ \E a \in Axes : mgr_get_position(a)
    \/ \E a \in Axes : mgr_get_state(a)
    \/ \E a \in Axes : mgr_home_limits(a)
    \/ \E S \in SUBSET Axes : mgr_initialize(S)
    \/ mgr_emergency_stop
    \/ \E a \in Axes : reconnect(a)

\* Two axes busy at once.
ShareBus ==
    \/ \E a \in {"X", "Y"} : mgr_move_single_axis(a, 0, FALSE, TRUE)
    \/ mgr_home_axis("Y", 0)
    \/ mgr_stop_axis("X")

Next ==
    \/ DriveAxis
    \/ \E a \in Axes : Transport(a) \/ MoveJobs(a) \/ HomeJobs(a) \/ StateJobs(a)
Spec == Init /\ [][Next]_vars

\* What the scheduler guarantees an axis: the event loop starts a created task, the
\* axis's worker thread takes the next queued job and runs it, and every loop with a
\* deadline (the completion monitor) leaves when it expires. _home's `while True`
\* has no deadline: the controller alone decides when it is left, so no fairness is
\* stated for home_status, and a homing that polls for ever is a behaviour that
\* takes no further step here.
Scheduled(a) ==
    \/ Transport(a) \/ MoveJobs(a) \/ StateJobs(a)
    \/ home_begin(a) \/ home_driving(a) \/ home_zero(a) \/ home_position(a)
SpecFair == Init /\ [][Next]_vars /\ \A a \in Axes : WF_vars(Scheduled(a))

NextBus ==
    \/ ShareBus
    \/ \E a \in Axes :
         \/ Transport(a)
         \/ move_absolute_begin(a) \/ move_absolute_sent(a)
         \/ monitor_begin(a) \/ monitor_status(a) \/ monitor_position(a)
         \/ stop_begin(a) \/ stop_sent(a)
         \/ home_begin(a) \/ home_driving(a) \/ home_status(a) \/ home_zero(a)
SpecBus == Init /\ [][NextBus]_vars

\* The orchestrator moving X and Y together once and then reading the positions
\* back.
XYDistances == {0, Range + 1}
MoveXY ==
    \/ \E dx \in XYDistances, dy \in XYDistances :
         ncalls = 0 /\ mgr_move_xy_rel(dx, dy, FALSE)
    \/ mgr_get_all_positions

NextXY ==
    \/ MoveXY
    \/ \E a \in Axes :
         \/ WriteCommand(a)
         \/ move_relative_begin(a) \/ move_relative_sent(a)
         \/ get_position_begin(a) \/ get_position_reply(a)
SpecXY == Init /\ [][NextXY]_vars

\* The orchestrator moving X and Y together once, with completion monitoring.
MoveXYWait ==
    \E dx \in XYDistances, dy \in XYDistances :
      ncalls = 0 /\ mgr_move_xy_rel(dx, dy, TRUE)

NextXYWait ==
    \/ MoveXYWait
    \/ \E a \in Axes :
         \/ Transport(a)
         \/ move_relative_begin(a) \/ move_relative_sent(a)
         \/ monitor_begin(a) \/ monitor_status(a) \/ monitor_position(a)
SpecXYWait == Init /\ [][NextXYWait]_vars

\* The orchestrator registering observers while X is moved.
Observe ==
    \/ \E o \in Observers : add_event_callback(o)
    \/ \E p \in Targets : mgr_move_single_axis("X", p, FALSE, FALSE)

NextObs ==
    \/ Observe
    \/ \E a \in Axes :
         WriteCommand(a) \/ move_absolute_begin(a) \/ move_absolute_sent(a)
SpecObs == Init /\ [][NextObs]_vars

\* The orchestrator moving X about a travel that holds every target.
InitWide == InitLive /\ IdleWithin(WideLimits) /\ budget = MaxOps
MoveFreely ==
    \E p \in Targets, relative \in BOOLEAN, wait \in BOOLEAN :
      mgr_move_single_axis("X", p, relative, wait)
NextWide ==
    \/ MoveFreely
    \/ \E a \in Axes :
         \/ Transport(a)
         \/ move_absolute_begin(a) \/ move_absolute_sent(a)
         \/ move_relative_begin(a) \/ move_relative_sent(a)
         \/ monitor_begin(a) \/ monitor_status(a) \/ monitor_position(a)
SpecWide == InitWide /\ [][NextWide]_vars

\* The orchestrator moving X about the configured travel, targets beyond it
\* included.
SpecMoves == Init /\ [][NextWide]_vars

\* The orchestrator calling operations on X while Y is busy too.
CallInOrder ==
    \/ \E a \in {"X", "Y"} : mgr_move_single_axis(a, 0, FALSE, TRUE)
    \/ \E a \in {"X", "Y"} : mgr_stop_axis(a)
    \/ \E a \in {"X", "Y"} : mgr_get_state(a)
NextOrder ==
    \/ CallInOrder
    \/ \E a \in Axes :
         \/ Transport(a)
         \/ move_absolute_begin(a) \/ move_absolute_sent(a)
         \/ monitor_begin(a) \/ monitor_status(a) \/ monitor_position(a)
         \/ stop_begin(a) \/ stop_sent(a)
         \/ StateJobs(a)
SpecOrder == Init /\ [][NextOrder]_vars

\* The orchestrator polling the positions of a stage with one live axis, and
\* releasing it.
InitPoll == InitOne /\ Idle /\ budget = MaxOps
Poll ==
    \/ mgr_get_all_positions
    \/ \E a \in Axes : mgr_get_position(a)
    \/ mgr_disconnect_all
    \/ mgr_disconnect_all_return
NextPoll ==
    \/ Poll
    \/ \E a \in Axes : WriteCommand(a) \/ get_position_begin(a) \/ get_position_reply(a)
SpecPoll == InitPoll /\ [][NextPoll]_vars

\* The orchestrator pulling the emergency stop on a stage whose one live axis is
\* moving or homing.
StopInEmergency ==
    \/ mgr_move_single_axis("X", 0, FALSE, TRUE)
    \/ \E d \in {0, 1} : mgr_home_axis("X", d)
    \/ mgr_emergency_stop
NextEstop ==
    \/ StopInEmergency
    \/ \E a \in Axes :
         \/ Transport(a)
         \/ move_absolute_begin(a) \/ move_absolute_sent(a)
         \/ monitor_begin(a) \/ monitor_status(a) \/ monitor_position(a)
         \/ HomeJobs(a)
         \/ emergency_stop_begin(a) \/ emergency_stop_sent(a)
SpecEstop == InitPoll /\ [][NextEstop]_vars

\* The orchestrator releasing the stage while X and Y are being queried.
ReleaseStage ==
    \/ \E a \in {"X", "Y"} : mgr_get_state(a)
    \/ mgr_disconnect_all
    \/ mgr_disconnect_all_return
NextClose ==
    \/ ReleaseStage
    \/ \E a \in Axes : WriteCommand(a) \/ StateJobs(a)
SpecClose == Init /\ [][NextClose]_vars

\* The orchestrator homing X and loading the preset positions.
Preset ==
    \/ mgr_load_params
    \/ \E d \in {0, 1} : mgr_home_axis("X", d)
NextPreset ==
    \/ Preset
    \/ \E a \in Axes :
         \/ Transport(a)
         \/ move_absolute_begin(a) \/ move_absolute_sent(a)
         \/ monitor_begin(a) \/ monitor_status(a) \/ monitor_position(a)
         \/ HomeJobs(a)
SpecPreset == Init /\ [][NextPreset]_vars

\* The orchestrator homing X, by home() and by home_limits().
HomeAxis ==
    \/ \E d \in {0, 1} : mgr_home_axis("X", d)
    \/ mgr_home_limits("X")
NextHoming ==
    \/ HomeAxis
    \/ \E a \in Axes :
         \/ WriteCommand(a)
         \/ HomeJobs(a)
         \/ home_limits_begin(a) \/ home_limits_sent(a) \/ home_limits_status(a)
         \/ home_limits_position(a)
SpecHoming == Init /\ [][NextHoming]_vars

\* The orchestrator placing X and Y by absolute moves, singly and together.
PlaceXY ==
    \/ \E x \in {0, Range}, y \in {0, Range} : mgr_move_xy_absolute(x, y, FALSE)
    \/ \E p \in {0, Range} : mgr_move_single_axis("X", p, FALSE, FALSE)
NextPlace ==
    \/ PlaceXY
    \/ \E a \in Axes :
         WriteCommand(a) \/ move_absolute_begin(a) \/ move_absolute_sent(a)
SpecPlace == InitWide /\ [][NextPlace]_vars

\* An orchestrator that waits for the stage to come to rest.
WaitForRest == mgr_wait_for_all_moves_complete
NextRest ==
    \/ WaitForRest
    \/ \E a \in Axes : WriteCommand(a) \/ StateJobs(a)
SpecRest == Init /\ [][NextRest]_vars

\* A stage set up without Y: initialize([X, Z]), or Y's connect failed.
InitNoY ==
    /\ motors = Axes \ {"Y"}
    /\ last_positions = [a \in Axes |-> IF a = "Y" THEN None ELSE Some(0)]
    /\ sinks = Axes \ {"Y"}
    /\ port = "open"
    /\ is_connected = [a \in Axes |-> a # "Y"]
    /\ sent = [a \in Axes |-> IF a = "Y" THEN <<>>
                               ELSE <<[axis |-> AXIS_MAP[a], op |-> "FBK3", arg |-> 0,
                                       by |-> "connect", n |-> 0],
                                      [axis |-> AXIS_MAP[a], op |-> "VEL", arg |-> 0,
                                       by |-> "connect", n |-> 0]>>]
    /\ Idle
    /\ budget = MaxOps

\* The orchestrator finding the limits of the axes of that stage.
FindLimits == \E a \in Axes : mgr_home_limits(a)
NextNoY ==
    \/ FindLimits
    \/ \E a \in Axes :
         \/ WriteCommand(a)
         \/ home_limits_begin(a) \/ home_limits_sent(a) \/ home_limits_status(a)
         \/ home_limits_position(a)
SpecNoY == InitNoY /\ [][NextNoY]_vars

\* The processes publishing and reading the shared snapshot.
ShareSnapshot ==
    \/ \E c \in Configs : to_shared_memory(c)
    \/ from_shared_memory("reader")
    \/ create_shared_stage_position
    \/ \E p \in Procs : open_shared_stage_position(p)
    \/ \E v \in {0, Range} : set_positions("writer", "X", v)
    \/ set_homed("writer", "X")
    \/ \E p \in {Owner, "reader"} : read_positions(p)
    \/ \E p \in Procs : shm_close(p)
    \/ \E r \in Regions : safe_shm_shutdown(r)
SpecShm == Init /\ [][ShareSnapshot]_vars

NextMgr ==
    \/ ManageStage
    \/ \E a \in Axes :
         Transport(a) \/ MoveJobs(a) \/ HomeJobs(a) \/ StateJobs(a) \/ StageJobs(a)
SpecMgr == InitMgr /\ [][NextMgr]_vars

\* ------------------------------------------------------------------ claims
Moves == {"move_abs", "move_rel"}
Outside(p, lim) == p < lim[1] \/ p > lim[2]

\* C1: a move_absolute whose target, or a move_relative whose projected target
\* (cached last position + distance), lies outside the axis's position_limits
\* returns failure, has written no command, and leaves move_in_progress and the
\* current target as they were.
C1_OutsideMoveRejected ==
    \A a \in Axes :
      (last[a].kind \in Moves /\ Outside(last[a].proj, last[a].lim)) =>
        /\ last[a].ret = "False"
        /\ last[a].w1 = last[a].w0
        /\ last[a].mip1 = last[a].mip0
        /\ last[a].tgt1 = last[a].tgt0
C1_Witness ==
    \E a \in Axes :
      /\ last[a].kind = "move_rel"
      /\ Outside(last[a].proj, last[a].lim)
      /\ last[a].mip0
      /\ last[a].ret = "False"

\* C2: while one axis's round trip is in progress (its command written, its read
\* not yet ended), no other axis writes to the port.
C2_RoundTripsDoNotInterleave ==
    [][\A a \in Axes : phase[a] = "r" =>
         \A b \in Axes \ {a} : sent'[b] = sent[b]]_vars
C2_Witness ==
    \E a, b \in Axes :
      /\ a # b
      /\ phase[a] = "r" /\ serial_lock = a
      /\ phase[b] = "w"
      /\ job[a].kind = "monitor" /\ job[b].kind = "home"

\* C3: a stop() called while the axis's completion monitor is polling has its
\* command written before that monitor finishes: no such stop is still waiting to
\* be run once the monitor is no longer the running job.
C3_StopWrittenBeforeMonitorEnds ==
    \A a \in Axes :
      (\E i \in 1..Len(queue[a]) : queue[a][i].kind = "stop" /\ queue[a][i].arg = 1)
        => job[a].kind = "monitor"

\* C4: emergency_stop() returns failure exactly when no axis is live; otherwise it
\* returns success and every live axis has had its stop attempted, whatever the
\* attempts on the axes before it gave.
C4_EmergencyStopReachesAll ==
    (callret.op = "emergency_stop" /\ mgr.op = "none") =>
      IF mgr.req = {}
        THEN callret.ret = "False"
        ELSE /\ callret.ret = "True"
             /\ \A a \in mgr.req : mgr.res[a] \in {"True", "False"}
C4_Witness ==
    /\ callret.op = "emergency_stop" /\ mgr.op = "none"
    /\ callret.ret = "True"
    /\ mgr.res["X"] = "False"
    /\ mgr.res["Y"] = "True"
    /\ mgr.res["Z"] = "False"

\* C5: once home(direction = negative) has seen the axis stopped, it ends with
\* success, is_homed true and cached position 0, whatever happens to the
\* commands after that.
C5_ConfirmedHomeSucceeds ==
    \A a \in Axes :
      (last[a].kind = "home" /\ last[a].arg = 0 /\ last[a].stopped) =>
        /\ last[a].ret = "True"
        /\ last[a].homed1
        /\ last_position[a] = 0

\* C6 as stated: a home() that fails on an axis that was homed leaves is_homed true.
C6_FailedHomeKeepsFlag ==
    \A a \in Axes :
      (last[a].kind = "home" /\ last[a].ret = "False" /\ last[a].homed0) =>
        last[a].homed1
\* C6 as amended: a home() that fails has emitted an Error event as its last event
\* and leaves is_homed false, whether or not the axis was homed before; the flag
\* it cleared when it started never turns a failed home() into a success, which
\* is reported only with is_homed set and the Homed event emitted.
C6_FailedHomeClearsFlag ==
    \A a \in Axes :
      last[a].kind = "home" =>
        /\ last[a].ev1 > last[a].ev0
        /\ IF last[a].ret = "False"
             THEN ~last[a].homed1 /\ events[a][last[a].ev1][1] = "ERROR"
             ELSE last[a].homed1 /\ events[a][last[a].ev1][1] = "HOMED"
C6_Witness ==
    \E a \in Axes :
      /\ last[a].kind = "home" /\ last[a].ret = "False"
      /\ last[a].homed0
      /\ ~is_homed[a]

\* C7: no wait loop (home, home_limits, completion monitor) is still polling once
\* it has used the polls that the timeout allows.
C7_PollingLoopsBounded ==
    \A a \in Axes :
      job[a].kind \in {"home", "home_limits", "monitor"} => polls[a] < MaxMonitorPolls

\* C8: move_in_progress is false once home() has returned and nothing else is
\* running or waiting on the axis.
C8_IdleAfterHome ==
    \A a \in Axes :
      (last[a].kind = "home" /\ Quiet(a)) => ~move_in_progress[a]

\* C9 as stated: initialize returns success iff every requested axis connected; an
\* axis whose connect failed is not in the live set afterwards, and one that
\* connected is.
C9_FailedAxisNotLive ==
    (callret.op = "initialize" /\ mgr.op = "none") =>
      /\ callret.ret = "True" <=> \A a \in mgr.req : mgr.res[a] = "True"
      /\ \A a \in mgr.req :
           IF mgr.res[a] = "True"
             THEN a \in motors
             ELSE a \notin motors /\ last_positions[a] = None /\ a \notin sinks
\* C9 as amended: an axis whose connect failed is not added by the call: it is live,
\* has a cached position and an event registration afterwards only if it had them
\* before the call.
C9_FailedAxisNotAdded ==
    (callret.op = "initialize" /\ mgr.op = "none") =>
      /\ callret.ret = "True" <=> \A a \in mgr.req : mgr.res[a] = "True"
      /\ \A a \in mgr.req :
           IF mgr.res[a] = "True"
             THEN a \in motors /\ last_positions[a] = Some(0) /\ a \in sinks
             ELSE /\ a \in motors <=> a \in mgr.before
                  /\ last_positions[a] # None <=> a \in mgr.before
                  /\ a \in sinks <=> a \in mgr.before
C9_Witness ==
    /\ callret.op = "initialize" /\ mgr.op = "none"
    /\ callret.ret = "False"
    /\ mgr.before = {}
    /\ mgr.res["X"] = "True" /\ "X" \in motors
    /\ mgr.res["Y"] = "False" /\ "Y" \notin motors

\* C10: a manager operation on an axis that is not live returns the failure value
\* in one step that writes nothing, submits nothing and changes neither the live
\* set, the cached positions nor the configuration.
C10_NotInitializedIsInert ==
    [][(callret'.n # callret.n /\ ~callret'.live) =>
         /\ callret'.ret = "False"
         /\ callret'.op \in {"home_axis", "home_limits", "move_single_axis",
                             "stop_axis", "get_position", "get_state"}
         /\ UNCHANGED <<sent, queue, motors, last_positions, cfg_limits, sinks>>]_vars
C10_Witness ==
    /\ callret.op = "home_limits" /\ ~callret.live
    /\ callret.ret = "False"
    /\ callret.axis = "Z"

\* C11: home_limits(Z) with Y and Z live has the Y driver write an absolute move
\* to position_limits[Y].hi: the Y move it requests ends with exactly that
\* command written.
C11_YMoveWritten ==
    (last["Y"].via = "home_limits_Y") =>
      /\ last["Y"].w1 = last["Y"].w0 + 1
      /\ LET c == sent["Y"][last["Y"].w1]
         IN  c.axis = AXIS_MAP["Y"] /\ c.op = "MVA" /\ c.arg = cfg_limits["Y"][2]

ZLimitHoming ==
    \/ job["Z"].kind = "home_limits"
    \/ last["Z"].kind = "home_limits"
    \/ \E i \in 1..Len(queue["Z"]) : queue["Z"][i].kind = "home_limits"
YAtUpperLimit ==
    /\ last["Y"].kind = "monitor"
    /\ last["Y"].ret = "True"
    /\ last["Y"].proj = cfg_limits["Y"][2]

C13_PartialFailureReflected ==
    /\ callret.op = "move_xy_rel" =>
         (callret.ret = "True" <=> mgr.xy["X"] = "True" /\ mgr.xy["Y"] = "True")
    /\ \A a, b \in {"X", "Y"} :
         (mgr.op = "none" /\ mgr.xy[a] = "True" /\ mgr.xy[b] = "False") =>
           /\ \E i \in 1..Len(sent[a]) : sent[a][i].op = "MVR"
           /\ (callret.op = "get_all_positions" /\ last[a].kind = "get_position"
                 /\ last[a].read # None)
                => mgr.data[a] = last[a].read[1]

\* C14: when move_xy_rel with wait_for_completion has returned success, the
\* completion monitors of both X and Y have finished and reported the axis
\* stopped within tolerance of its target.
C14_SuccessMeansCompleted ==
    (callret.op = "move_xy_rel" /\ callret.ret = "True") =>
      \A a \in {"X", "Y"} : last[a].kind = "monitor" /\ last[a].ret = "True"

\* C15: a get_position whose position query failed (transport error or empty
\* response) returns an error and not a position value.
C15_FailedReadIsError ==
    \A a \in Axes :
      (last[a].kind = "get_position" /\ last[a].read = None) =>
        last[a].ret \notin {"Position", "Position(0.0)"}

\* C16: get_state, the homing wait loops and the completion monitor conclude
\* 'stopped' only from the status block received for the query just made, never
\* from an empty response answered with the block of an earlier query.
C16_StoppedOnlyFromFreshStatus ==
    \A a \in Axes :
      /\ snap[a].stopped => snap[a].sta = "stopped"
      /\ last[a].stopped => last[a].sta = "stopped"

\* C17: for every event a live axis's driver emitted, the manager called every
\* observer registered at that moment exactly once and in registration order,
\* also past an observer that raised.
C17_EveryObserverCalled ==
    \A a \in Axes : \A i \in 1..Len(events[a]) :
      events[a][i][3] = events[a][i][4]
C17_Witness ==
    \E i \in 1..Len(events["X"]) :
      /\ events["X"][i][1] = "MOVE_STARTED"
      /\ events["X"][i][3] = <<"raises", "returns">>
      /\ last["X"].kind = "move_abs" /\ last["X"].ret = "True"

\* C18: a connect() on an already-connected axis succeeds and writes no command.
C18_SecondConnectIsNoOp ==
    \A a \in Axes :
      (last[a].kind = "connect" /\ last[a].via = "connect") =>
        last[a].ret = "True" /\ last[a].w1 = last[a].w0

TimedOut(a) ==
    last[a].kind = "monitor" /\ ~last[a].stopped /\ last[a].sta \in {"moving", "empty"}

\* C19: a completion monitor whose timeout expired has returned failure with
\* move_in_progress and the target cleared, has emitted one event, an Error, and
\* has written nothing but status queries: no stop command.
C19_TimeoutFailsWithoutStop ==
    \A a \in Axes :
      TimedOut(a) =>
        /\ last[a].ret = "False"
        /\ ~last[a].mip1 /\ last[a].tgt1 = None
        /\ last[a].ev1 = last[a].ev0 + 1
        /\ events[a][last[a].ev1][1] = "ERROR"
        /\ \A i \in (last[a].w0 + 1)..last[a].w1 : sent[a][i].op = "STA?"
C19_Witness ==
    \E a \in Axes :
      /\ TimedOut(a)
      /\ last[a].mip0 /\ last[a].tgt0 # None
      /\ last[a].polls = MaxMonitorPolls - 1
      /\ last[a].w1 = last[a].w0 + MaxMonitorPolls

TerminalEvents == {"MOVE_COMPLETED", "ERROR"}

\* C20: every move accepted with wait=true (its MoveStarted emitted, its monitor task
\* created) is eventually followed by the end of its completion monitor with exactly
\* one terminal event, MoveCompleted or Error.
C20_AcceptedMoveGetsTerminalEvent ==
    \A a \in Axes :
      (spawn[a] # <<>>) ~>
        (/\ last[a].kind = "monitor"
         /\ last[a].ev1 = last[a].ev0 + 1
         /\ events[a][last[a].ev1][1] \in TerminalEvents)

\* C21: a completion monitor that saw the axis stopped and read its position emits
\* MoveCompleted, with success=true iff |position read - target| <= position_tolerance
\* and success=false otherwise, and the cached position becomes the position read.
C21_StoppedMonitorCompletes ==
    \A a \in Axes :
      (last[a].kind = "monitor" /\ last[a].stopped /\ last[a].read # None) =>
        LET ok == Abs(last[a].read[1] - last[a].arg) <= PositionTolerance IN
        /\ last[a].ev1 = last[a].ev0 + 1
        /\ events[a][last[a].ev1][1] = "MOVE_COMPLETED"
        /\ events[a][last[a].ev1][2] = (IF ok THEN 1 ELSE 0)
        /\ (last[a].ret = "True") <=> ok
        /\ last[a].pos1 = last[a].read[1]

PollLabels == {"mon_STA", "home_STA"}

\* C22: the transport's lock is held only for one write/read round trip: whoever
\* holds it is between its write and its read, so a polling loop (completion
\* monitor or homing wait) does not hold it between two polls and a command of
\* another axis can take the transport while the loop is still running.
C22_LockHeldForOneRoundTrip ==
    \A a \in Axes :
      /\ serial_lock = a => job[a] # NoJob /\ phase[a] = "r"
      /\ (pc[a] \in PollLabels /\ phase[a] = "w") => serial_lock # a
C22_Witness ==
    \E a \in Axes, b \in Axes :
      /\ a # b
      /\ pc[a] \in PollLabels /\ polls[a] >= 1 /\ phase[a] = "w"
      /\ serial_lock = b /\ pc[b] \notin PollLabels

Written(a) == [i \in 1..(last[a].w1 - last[a].w0) |-> sent[a][last[a].w0 + i].op]

\* C23: a driver home_limits() that ended at a position query the controller
\* answered has succeeded: it wrote MLN, then ZRO, then MLP and last the position
\* query, each of ZRO and the position query right after a status query, and it
\* left position_limits == (0, position read) and the cached position at that
\* reading.
C23_HomeLimitsMeasuresTravel ==
    \A a \in Axes :
      (last[a].kind = "home_limits" /\ last[a].read # None) =>
        LET w == Written(a) IN
        /\ last[a].ret = "True"
        /\ Len(w) >= 6 /\ w[1] = "MLN" /\ w[Len(w)] = "POS?" /\ w[Len(w) - 1] = "STA?"
        /\ \E i \in 2..Len(w) : \E k \in (i + 1)..Len(w) :
             w[i] = "ZRO" /\ w[k] = "MLP"
        /\ position_limits[a] = <<0, last[a].read[1]>>
        /\ last[a].pos1 = last[a].read[1]

\* C24: a manager-level home_limits(axis) whose driver run ended at a position
\* query the controller answered returns success and stores (0, position read) as
\* config.position_limits[axis], the limits the driver now enforces; and in every
\* state the configured limits of a live axis are the limits its driver checks
\* moves against.
C24_ManagerStoresMeasuredLimits ==
    /\ \A a \in motors : cfg_limits[a] = position_limits[a]
    /\ \A a \in Axes :
         (/\ callret.op = "home_limits" /\ callret.axis = a /\ callret.live
          /\ last[a].kind = "home_limits" /\ last[a].read # None) =>
           /\ callret.ret = "True"
           /\ cfg_limits[a] = <<0, last[a].read[1]>>

C26_OnlyOwnerUnlinks ==
    \A r \in Regions :
      (shm.region[r].created /\ ~shm.region[r].shutdown) => shm.region[r].linked
C26_Witness ==
    /\ \A r \in Regions : shm.region[r].created /\ ~shm.region[r].shutdown
    /\ shm.attaches = MaxAttach
    /\ shm.got["reader"] # None
    /\ shm.seen["reader"] # None
    /\ \A p \in Procs \ {Owner} : shm.view[p] = None

\* C27: when disconnect_all() has returned, the live set and the manager's cached
\* positions are empty and a stop command is the last thing written for every axis
\* that was live.
C27_DisconnectAllStopsAxes ==
    callret.op = "disconnect_all" =>
      /\ motors = {}
      /\ \A a \in Axes : last_positions[a] = None
      /\ \A a \in mgr.before :
           sent[a] # <<>> /\ sent[a][Len(sent[a])].op \in {"STP", "EST"}

\* C28: get_all_positions() returns a value for every axis identifier, 0.0 for an
\* axis that is not live, and never submits a position query for such an axis.
C28_AbsentAxesReadZero ==
    /\ callret.op = "get_all_positions" =>
         /\ callret.ret = "data"
         /\ DOMAIN mgr.data = Axes
         /\ \A a \in Axes \ mgr.req : mgr.data[a] = 0
    /\ \A a \in Axes \ motors :
         /\ job[a].via # "get_all_positions"
         /\ \A i \in 1..Len(queue[a]) : queue[a][i].via # "get_all_positions"
C28_Witness ==
    /\ callret.op = "get_all_positions"
    /\ mgr.req = {"X"}
    /\ last["X"].via = "get_all_positions" /\ last["X"].w1 > last["X"].w0
    /\ mgr.data["Y"] = 0 /\ sent["Y"] = <<>>

\* C29 as stated: within one axis, every command is written no earlier than the
\* commands of the operations called before its own, a waited move's completion
\* queries included.
C29_WrittenInCallOrder ==
    \A a \in Axes : \A k \in 1..Len(sent[a]) : \A i \in 1..(k - 1) :
      (sent[a][i].n > 0 /\ sent[a][k].n > 0) => sent[a][i].n <= sent[a][k].n

\* C29, amended: within one axis, the commands that single-axis operations write
\* themselves are written in the order of the calls, for every interleaving with
\* operations on other axes; the status queries of a waited move's completion
\* monitor are submitted after the move has returned and may follow the command of
\* a later call.
C29_OperationsInCallOrder ==
    \A a \in Axes : \A k \in 1..Len(sent[a]) : \A i \in 1..(k - 1) :
      (sent[a][i].n > 0 /\ sent[a][i].by # "monitor" /\ sent[a][k].by # "monitor")
        => sent[a][i].n <= sent[a][k].n
C29_Witness ==
    \E i \in 1..Len(sent["X"]) : \E k \in 1..Len(sent["X"]) :
      /\ i < k
      /\ sent["X"][i].n > 0 /\ sent["X"][k].n > sent["X"][i].n
      /\ sent["X"][i].by # "monitor" /\ sent["X"][k].by # "monitor"

\* The position the commands of a log send the axis to, from the zero it is at when
\* the driver is created: MVA names the position, MVR a distance from the position
\* commanded before, ZRO makes the current position zero.
RECURSIVE Commanded(_)
Commanded(log) ==
    IF log = <<>>
      THEN 0
      ELSE LET c == log[Len(log)]
               before == Commanded(SubSeq(log, 1, Len(log) - 1))
           IN  CASE c.op = "MVA" -> c.arg
                 [] c.op = "MVR" -> before + c.arg
                 [] c.op = "ZRO" -> 0
                 [] OTHER -> before

\* C30: every move command written for an axis commands it to a position inside
\* that axis's position_limits, whatever sequence of accepted absolute and relative
\* moves came before and whether or not they were waited for.
C30_MovesStayInLimits ==
    \A a \in Axes : \A k \in 1..Len(sent[a]) :
      sent[a][k].op \in {"MVA", "MVR"} =>
        LET p == Commanded(SubSeq(sent[a], 1, k))
        IN  position_limits[a][1] <= p /\ p <= position_limits[a][2]

\* C31: a move_absolute whose target satisfies lo <= target <= hi, the two ends
\* included, is not rejected as a limit violation: it goes on to its MVA command,
\* and when it reports success the command was written and MOVE_STARTED emitted.
C31_BoundaryMoveAccepted ==
    \A a \in Axes :
      (last[a].kind = "move_abs" /\ ~Outside(last[a].proj, last[a].lim)) =>
        /\ last[a].at = "move_MVA"
        /\ last[a].ret = "True" =>
             /\ last[a].w1 = last[a].w0 + 1
             /\ last[a].ev1 > last[a].ev0

\* C32: an emergency_stop() called while every live axis is inside a completion
\* monitor's or a homing's polling loop has its stop command written before any of
\* those loops ends: while its first stop is still waiting to be written, every
\* one of those axes is still inside its loop.
C32_EmergencyStopCutsIn ==
    \A a \in Axes :
      (\E i \in 1..Len(queue[a]) : queue[a][i].kind = "estop" /\ queue[a][i].arg = 1)
        => \A b \in mgr.req : Looping(b)

\* C33: the shared serial port is never closed while an axis's command/response
\* round trip is in progress: whenever an axis holds the serial lock, between its
\* write and the matching read, the port is open.
C33_PortOpenDuringRoundTrip ==
    serial_lock # "free" => port = "open"

\* The call of the last move command written for axis a, 0 if there is none.
RECURSIVE LastMoveCall(_)
LastMoveCall(log) ==
    IF log = <<>>
      THEN 0
      ELSE IF log[Len(log)].op \in {"MVA", "MVR"}
             THEN log[Len(log)].n
             ELSE LastMoveCall(SubSeq(log, 1, Len(log) - 1))

\* The completion monitors of axis a that have not ended: waiting as tasks, queued,
\* or running.
OpenMonitors(a) ==
    {spawn[a][i] : i \in 1..Len(spawn[a])}
      \cup {queue[a][i] : i \in {k \in 1..Len(queue[a]) : queue[a][k].kind = "monitor"}}
      \cup (IF job[a].kind = "monitor" THEN {job[a]} ELSE {})

\* C34: while the completion monitor of the move accepted last on an axis has not
\* ended (that move has had no terminal event), move_in_progress is true and the
\* current target is that move's target; the monitor of an earlier move does not
\* clear them.
C34_LatestMoveKeepsTarget ==
    \A a \in Axes : \A m \in OpenMonitors(a) :
      m.n = LastMoveCall(sent[a]) =>
        move_in_progress[a] /\ target_position[a] = Some(m.arg)

\* C35: load_params() called while some live axis is not homed writes no move
\* command: no preset move of such a call is ever between its write and its read.
C35_UnhomedLoadMovesNothing ==
    (mgr.op = "load_params" /\ mgr.unhomed # {}) =>
      \A a \in Axes :
        ~(job[a].via = "load_params" /\ pc[a] = "move_MVA" /\ phase[a] = "r")

C37_CacheFollowsAbsoluteMove ==
    /\ (callret.op = "move_single_axis" /\ callret.ret = "True") =>
         LET a == callret.axis
         IN  (last[a].via = "move_single_axis" /\ last[a].kind = "move_abs")
               => last_positions[a] = Some(last[a].arg)
    /\ (callret.op = "move_xy_absolute" /\ callret.ret = "True" /\ mgr.op = "none") =>
         \A a \in {"X", "Y"} :
           last[a].via = "move_xy_absolute" => last_positions[a] = Some(mgr.dist[a])

\* C38: wait_for_all_moves_complete() returns true only if, in its last polling
\* round, every live axis answered its status query with 'stopped' (a failed
\* query does not count as stopped); a call that gave up returns false.
C38_RestMeansAllStopped ==
    (callret.op = "wait_for_all_moves_complete" /\ callret.ret = "True" /\ mgr.op = "none")
      => \A a \in mgr.req : mgr.res[a] = "IDLE" /\ last[a].stopped

\* C39: home_limits(Z) called when Z is live but Y is not returns a failure
\* value without raising, and writes no Z command to the transport.
C39_ZLimitsWithoutYFails ==
    (callret.op = "home_limits" /\ callret.axis = "Z" /\ "Z" \in motors /\ "Y" \notin motors)
      => /\ callret.ret = "False"
         /\ \A i \in 1..Len(sent["Z"]) : sent["Z"][i].by = "connect"

====
